---- MODULE Spec2Model ----
(***************************************************************************)
(* Model of art::OatFileAssistant (oat_file_assistant.cc): the freshness   *)
(* status of the two candidate oat files of a dex location (odex_, the     *)
(* file next to the dex file, and oat_, the file in the dalvik cache), the *)
(* dexopt decision and the selection of the best candidate.                *)
(*                                                                         *)
(* Every method of the C++ code that reads or writes a lazily computed     *)
(* field is an operator that takes the assistant `t` (a record of its      *)
(* fields) and yields [t |-> the assistant afterwards, r |-> the result].  *)
(* A failed CHECK sets t.aborted.  One action is one call of a public      *)
(* method by the owner of the assistant.                                   *)
(*                                                                         *)
(* Spec is the assistant under its queries, on every kind of candidate.    *)
(* SpecUpdate adds MakeUpToDate, which writes the files and directories of *)
(* the selected candidate, on a few candidates.  SpecPair follows two      *)
(* assistants one after the other to compare what GetBestInfo selects.     *)
(***************************************************************************)
EXTENDS Integers, Sequences, FiniteSets, TLC

\* ------------------------------------------------------------------------
\* Bounds of the model
\* ------------------------------------------------------------------------
MaxUnits == 2        \* dex files (multidex entries) per dex location
MaxChecksum == 2     \* distinct values of a location checksum

\* ------------------------------------------------------------------------
\* Values
\* ------------------------------------------------------------------------
NoFile == [null |-> TRUE]  \* a null OatFile / VdexFile / ImageInfo / vector pointer

\* OatFileAssistant::OatStatus
kOatCannotOpen == "kOatCannotOpen"
kOatDexOutOfDate == "kOatDexOutOfDate"
kOatBootImageOutOfDate == "kOatBootImageOutOfDate"
kOatRelocationOutOfDate == "kOatRelocationOutOfDate"
kOatUpToDate == "kOatUpToDate"
OatStatus ==
  {kOatCannotOpen, kOatDexOutOfDate, kOatBootImageOutOfDate,
   kOatRelocationOutOfDate, kOatUpToDate}

\* OatFileAssistant::DexOptNeeded
kNoDexOptNeeded == 0
kDex2OatFromScratch == 1
kDex2OatForBootImage == 2
kDex2OatForFilter == 3
kDex2OatForRelocation == 4

\* CompilerFilter::Filter, in increasing order of the enum
kVerify == 1
kQuicken == 2
kSpeedProfile == 3
kSpeed == 4
Filters == {kVerify, kQuicken, kSpeedProfile, kSpeed}

DependsOnImageChecksum(filter) == filter >= kQuicken
IsAotCompilationEnabled(filter) == filter >= kSpeedProfile
DependsOnProfile(filter) == filter = kSpeedProfile
IsAsGoodAs(current, target) == current >= target

\* Build configuration
kUseReadBarrier == TRUE
kIsVdexEnabled == TRUE

\* The two OatFileInfo members of the assistant
Locations == {"odex_", "oat_"}

\* ------------------------------------------------------------------------
\* Files
\* ------------------------------------------------------------------------
ChecksumLists == UNION {[1..n -> 1..MaxChecksum] : n \in 1..MaxUnits}

\* The image the runtime booted from (ImageHeader of Runtime::GetImageLocation)
RuntimeImage == [oat_checksum |-> 1, oat_data_begin |-> 1, patch_delta |-> 1]

\* The original dex files of a dex location have checksum 1 each
SourceLists == {[i \in 1..n |-> 1] : n \in 1..MaxUnits}
DexFiles == [readable : BOOLEAN, checksums : SourceLists]

\* The oat files on disk whose OatDexFile entries are one of `lists`: OatHeader
\* fields and the checksums of the entries
OatFiles(lists) ==
  [is_cc : BOOLEAN,
   dex_checksums : lists,
   filter : Filters,
   image_checksum : 1..2,
   oat_data_begin : 1..2,
   patch_delta : 1..2,
   pic : BOOLEAN]

\* The oat file dex2oat produces today for the readable original dex files
BaselineOat(sums) ==
  [is_cc |-> kUseReadBarrier, dex_checksums |-> sums, filter |-> kSpeed,
   image_checksum |-> RuntimeImage.oat_checksum,
   oat_data_begin |-> RuntimeImage.oat_data_begin,
   patch_delta |-> RuntimeImage.patch_delta,
   pic |-> FALSE]

\* What is at the filename of a candidate: nothing, a vdex file alone, or an
\* oat file with the vdex file of the same compilation
NoCandidate == [oat |-> NoFile, vdex |-> NoFile]

\* A file that OS::CreateEmptyFile made or File::Erase truncated: it exists and
\* has no content
EmptyFile == [empty |-> TRUE]
VdexOnly(sums) == [oat |-> NoFile, vdex |-> [checksums |-> sums]]
Compiled(o) == [oat |-> o, vdex |-> [checksums |-> o.dex_checksums]]

\* Candidates that differ in every header field, with one dex file
GateCandidates ==
  {Compiled(o) : o \in OatFiles({c \in ChecksumLists : Len(c) = 1})}

\* Candidates that differ in the dex checksums only
ChecksumCandidates ==
  {Compiled(BaselineOat(c)) : c \in ChecksumLists} \cup {VdexOnly(c) : c \in ChecksumLists}

\* A few candidates, one per outcome of the status, and one whose oat file
\* has no OatDexFile entry for the second dex file (checksum 0)
FewCandidates ==
  LET b == BaselineOat(<<1>>) IN
  {NoCandidate, VdexOnly(<<1>>), VdexOnly(<<2>>),
   Compiled(b),
   Compiled(BaselineOat([i \in 1..MaxUnits |-> 1])),
   [oat |-> BaselineOat(<<1, 0>>), vdex |-> [checksums |-> <<1, 1>>]],
   Compiled([b EXCEPT !.dex_checksums = <<2>>]),
   Compiled([b EXCEPT !.oat_data_begin = 2]),
   Compiled([b EXCEPT !.image_checksum = 2]),
   Compiled([b EXCEPT !.filter = kVerify]),
   Compiled([b EXCEPT !.filter = kSpeedProfile]),
   Compiled([b EXCEPT !.is_cc = ~kUseReadBarrier])}

\* ------------------------------------------------------------------------
\* State
\* ------------------------------------------------------------------------
VARIABLES
  dex_file,       \* the file at dex_location_: its dex files and whether they can be read
  boot_image,     \* header of the runtime's boot image, NoFile if it cannot be read
  disk,           \* disk[l]: the oat file and the vdex file at the filename of candidate l
  load_executable_,
  dex_parent_writable_,
  odex_,          \* OatFileInfo of the odex location
  oat_,           \* OatFileInfo of the oat (dalvik cache) location
  required_dex_checksums_attempted_,
  required_dex_checksums_found_,
  cached_required_dex_checksums_,
  has_original_dex_files_,
  image_info_load_attempted_,
  cached_image_info_,
  aborted,        \* a CHECK failed: the process is gone
  call,           \* the last call of a public method and what it returned
  odex_dirs,      \* how many of the directories oat/ and oat/<isa>/ of the odex file exist
  peer,           \* what GetBestInfo selected in an assistant observed before
  dex_location_,  \* the real path of the dex location, <<>> when realpath failed
  flock_,         \* the ScopedFlock of the assistant: the lock file it has open, or NoFile
  lock_file,      \* the lock file of the dex location in the file system
  procs,          \* the other processes that generate the oat file of the dex location
  pool            \* a thread pool and the test that drives it

vars ==
  <<dex_file, boot_image, disk, load_executable_, dex_parent_writable_, odex_, oat_,
    required_dex_checksums_attempted_, required_dex_checksums_found_,
    cached_required_dex_checksums_, has_original_dex_files_,
    image_info_load_attempted_, cached_image_info_, aborted, call, odex_dirs, peer,
    dex_location_, flock_, lock_file, procs, pool>>

\* What the queries and the generation of an oat file leave alone
others == <<dex_location_, flock_, lock_file, procs, pool>>

\* What no method of the assistant writes unless it generates an oat file
world == <<dex_file, boot_image, disk, odex_dirs, peer, others>>

\* The assistant as the record its methods work on
This ==
  [load_executable_ |-> load_executable_,
   dex_parent_writable_ |-> dex_parent_writable_,
   odex_ |-> odex_,
   oat_ |-> oat_,
   required_dex_checksums_attempted_ |-> required_dex_checksums_attempted_,
   required_dex_checksums_found_ |-> required_dex_checksums_found_,
   cached_required_dex_checksums_ |-> cached_required_dex_checksums_,
   has_original_dex_files_ |-> has_original_dex_files_,
   image_info_load_attempted_ |-> image_info_load_attempted_,
   cached_image_info_ |-> cached_image_info_,
   aborted |-> aborted]

\* OatFileInfo::OatFileInfo followed by Reset(filename) when the name resolved
NewOatFileInfo(provided) ==
  [filename_provided_ |-> provided,
   load_attempted_ |-> FALSE,
   file_ |-> NoFile,
   status_attempted_ |-> FALSE,
   status_ |-> kOatCannotOpen,
   file_released_ |-> FALSE]

\* ------------------------------------------------------------------------
\* Collaborators
\* ------------------------------------------------------------------------
\* OatFile::Open: the oat file of candidate l, with its vdex file, or nullptr
OatFileOpen(l, executable) ==
  LET f == disk[l] IN
  IF f.oat \in {NoFile, EmptyFile} \/ (kIsVdexEnabled /\ f.vdex \in {NoFile, EmptyFile})
  THEN NoFile
  ELSE [is_cc |-> f.oat.is_cc,
        dex_checksums |-> f.oat.dex_checksums,
        filter |-> f.oat.filter,
        image_checksum |-> f.oat.image_checksum,
        oat_data_begin |-> f.oat.oat_data_begin,
        patch_delta |-> f.oat.patch_delta,
        pic |-> f.oat.pic,
        vdex |-> f.vdex.checksums,
        executable |-> executable]

\* VdexFile::Open(GetVdexFilename(filename_)): [checksums |-> those of the vdex
\* header], or nullptr
VdexFileOpen(t, l) ==
  IF t[l].filename_provided_ /\ disk[l].vdex # EmptyFile THEN disk[l].vdex ELSE NoFile

\* DexFile::GetMultiDexChecksums(dex_location_)
GetMultiDexChecksums ==
  [ok |-> dex_file.readable,
   checksums |-> IF dex_file.readable THEN dex_file.checksums ELSE <<>>]

\* ImageInfo::GetRuntimeImageInfo
GetRuntimeImageInfo == boot_image

\* ------------------------------------------------------------------------
\* OatFileInfo::GetFile
\* ------------------------------------------------------------------------
\* The value of a set of one element: The({e(x) : x \in {v}}) is e(v), with v
\* computed once
The(S) == CHOOSE x \in S : TRUE

\* Variant: the file is loaded whether or not it was released
GetFile_NoCheck(t, l) ==
  IF ~t[l].load_attempted_
  THEN The({[t |-> [t EXCEPT ![l].load_attempted_ = TRUE, ![l].file_ = f], r |-> f] :
            f \in {IF t[l].filename_provided_
                   THEN OatFileOpen(l, t.load_executable_)
                   ELSE NoFile}})
  ELSE [t |-> t, r |-> t[l].file_]

\* Variant: the file is opened again at every call
GetFile_Reopen(t, l) ==
  IF t[l].file_released_
  THEN [t |-> [t EXCEPT !.aborted = TRUE], r |-> NoFile]
  ELSE The({[t |-> [t EXCEPT ![l].load_attempted_ = TRUE, ![l].file_ = f], r |-> f] :
            f \in {IF t[l].filename_provided_
                   THEN OatFileOpen(l, t.load_executable_)
                   ELSE NoFile}})

GetFile(t, l) ==
  IF t[l].file_released_
  THEN [t |-> [t EXCEPT !.aborted = TRUE], r |-> NoFile]
  ELSE IF ~t[l].load_attempted_
  THEN The({[t |-> [t EXCEPT ![l].load_attempted_ = TRUE, ![l].file_ = f], r |-> f] :
            f \in {IF t[l].filename_provided_
                   THEN OatFileOpen(l, t.load_executable_)
                   ELSE NoFile}})
  ELSE [t |-> t, r |-> t[l].file_]

\* ------------------------------------------------------------------------
\* OatFileAssistant::GetRequiredDexChecksums
\* ------------------------------------------------------------------------
\* The loop over the OatDexFile entries of the odex file: an entry that is
\* missing (checksum 0) clears `found` and leaves the loop
RECURSIVE OdexChecksums(_, _, _)
OdexChecksums(entries, i, acc) ==
  IF i > Len(entries) THEN [found |-> TRUE, cached |-> acc]
  ELSE IF entries[i] = 0 THEN [found |-> FALSE, cached |-> acc]
  ELSE OdexChecksums(entries, i + 1, Append(acc, entries[i]))

\* The else branch: the dex files cannot be read, get the checksums from the
\* odex file if it opens
\* Variant: the checksums are taken from the oat file of the dalvik cache
ChecksumsFromOdex_UseOat(t) ==
  The({IF g.r = NoFile THEN g.t
       ELSE The({[g.t EXCEPT !.required_dex_checksums_found_ = c.found,
                             !.cached_required_dex_checksums_ = c.cached] :
                 c \in {OdexChecksums(g.r.dex_checksums, 1, <<>>)}}) :
       g \in {GetFile([t EXCEPT !.required_dex_checksums_attempted_ = TRUE,
                                !.required_dex_checksums_found_ = FALSE,
                                !.cached_required_dex_checksums_ = <<>>,
                                !.has_original_dex_files_ = FALSE], "oat_")}})

ChecksumsFromOdex(t) ==
  The({IF g.r = NoFile THEN g.t
       ELSE The({[g.t EXCEPT !.required_dex_checksums_found_ = c.found,
                             !.cached_required_dex_checksums_ = c.cached] :
                 c \in {OdexChecksums(g.r.dex_checksums, 1, <<>>)}}) :
       g \in {GetFile([t EXCEPT !.required_dex_checksums_attempted_ = TRUE,
                                !.required_dex_checksums_found_ = FALSE,
                                !.cached_required_dex_checksums_ = <<>>,
                                !.has_original_dex_files_ = FALSE], "odex_")}})

GetRequiredDexChecksums(t) ==
  The({[t |-> t2,
        r |-> IF t2.required_dex_checksums_found_
              THEN [checksums |-> t2.cached_required_dex_checksums_]
              ELSE NoFile] :
       t2 \in {IF t.required_dex_checksums_attempted_ THEN t
               ELSE IF GetMultiDexChecksums.ok
               THEN [t EXCEPT !.required_dex_checksums_attempted_ = TRUE,
                              !.required_dex_checksums_found_ = TRUE,
                              !.cached_required_dex_checksums_ = GetMultiDexChecksums.checksums,
                              !.has_original_dex_files_ = TRUE]
               ELSE ChecksumsFromOdex(t)}})

\* OatFileAssistant::HasOriginalDexFiles
HasOriginalDexFiles(t) ==
  The({[t |-> g.t, r |-> g.t.has_original_dex_files_] : g \in {GetRequiredDexChecksums(t)}})

\* OatFileAssistant::GetImageInfo
GetImageInfo(t) ==
  IF t.image_info_load_attempted_ THEN [t |-> t, r |-> t.cached_image_info_]
  ELSE [t |-> [t EXCEPT !.image_info_load_attempted_ = TRUE,
                        !.cached_image_info_ = GetRuntimeImageInfo],
        r |-> GetRuntimeImageInfo]

\* ------------------------------------------------------------------------
\* OatFileAssistant::DexChecksumUpToDate
\* ------------------------------------------------------------------------
\* The loop over the indices: FALSE at the first index that differs
RECURSIVE ChecksumsMatchFrom(_, _, _)
ChecksumsMatchFrom(required, actual, i) ==
  IF i > Len(actual) THEN TRUE
  ELSE IF required[i] # actual[i] THEN FALSE
  ELSE ChecksumsMatchFrom(required, actual, i + 1)

\* Variant: equal counts are taken for equal checksums
DexChecksumUpToDateVdex_CountOnly(t, checksums) ==
  The({[t |-> g.t,
        r |-> IF g.r = NoFile THEN TRUE
              ELSE Len(g.r.checksums) = Len(checksums)] :
       g \in {GetRequiredDexChecksums(t)}})

\* Variant: the counts are not compared, only the indices both lists have
DexChecksumUpToDateVdex_NoCount(t, checksums) ==
  The({[t |-> g.t,
        r |-> IF g.r = NoFile THEN TRUE
              ELSE \A i \in DOMAIN g.r.checksums \cap DOMAIN checksums :
                     g.r.checksums[i] = checksums[i]] :
       g \in {GetRequiredDexChecksums(t)}})

\* Variant: without required checksums no vdex file is up to date
DexChecksumUpToDateVdex_NullFails(t, checksums) ==
  The({[t |-> g.t,
        r |-> IF g.r = NoFile THEN FALSE
              ELSE IF Len(g.r.checksums) # Len(checksums) THEN FALSE
              ELSE ChecksumsMatchFrom(g.r.checksums, checksums, 1)] :
       g \in {GetRequiredDexChecksums(t)}})

\* DexChecksumUpToDate(const VdexFile&): `checksums` are those of the vdex header
DexChecksumUpToDateVdex(t, checksums) ==
  The({[t |-> g.t,
        r |-> IF g.r = NoFile THEN TRUE
              ELSE IF Len(g.r.checksums) # Len(checksums) THEN FALSE
              ELSE ChecksumsMatchFrom(g.r.checksums, checksums, 1)] :
       g \in {GetRequiredDexChecksums(t)}})

\* DexChecksumUpToDate(const OatFile&): `entries` are the OatDexFile entries
RECURSIVE OatChecksumsMatchFrom(_, _, _)
OatChecksumsMatchFrom(required, entries, i) ==
  IF i > Len(entries) THEN TRUE
  ELSE IF entries[i] = 0 THEN FALSE
  ELSE IF required[i] # entries[i] THEN FALSE
  ELSE OatChecksumsMatchFrom(required, entries, i + 1)

DexChecksumUpToDateOat(t, entries) ==
  The({[t |-> g.t,
        r |-> IF g.r = NoFile THEN TRUE
              ELSE IF Len(g.r.checksums) # Len(entries) THEN FALSE
              ELSE OatChecksumsMatchFrom(g.r.checksums, entries, 1)] :
       g \in {GetRequiredDexChecksums(t)}})

\* ------------------------------------------------------------------------
\* OatFileAssistant::GivenOatFileStatus
\* ------------------------------------------------------------------------
\* Variant: the patch delta is not compared
RelocationStatus_NoDelta(t, file) ==
  IF IsAotCompilationEnabled(file.filter) /\ ~file.pic
  THEN The({[t |-> i.t,
             r |-> IF i.r = NoFile THEN kOatRelocationOutOfDate
                   ELSE IF file.oat_data_begin # i.r.oat_data_begin
                   THEN kOatRelocationOutOfDate
                   ELSE kOatUpToDate] :
            i \in {GetImageInfo(t)}})
  ELSE [t |-> t, r |-> kOatUpToDate]

\* The relocation test, reached once the image checksum test has passed
RelocationStatus(t, file) ==
  IF IsAotCompilationEnabled(file.filter) /\ ~file.pic
  THEN The({[t |-> i.t,
             r |-> IF i.r = NoFile THEN kOatRelocationOutOfDate
                   ELSE IF file.oat_data_begin # i.r.oat_data_begin
                   THEN kOatRelocationOutOfDate
                   ELSE IF file.patch_delta # i.r.patch_delta
                   THEN kOatRelocationOutOfDate
                   ELSE kOatUpToDate] :
            i \in {GetImageInfo(t)}})
  ELSE [t |-> t, r |-> kOatUpToDate]

\* The branch of the image checksum test without image info
NoImageStatus(t, file) ==
  The({IF h.r THEN [t |-> h.t, r |-> kOatBootImageOutOfDate]
       ELSE RelocationStatus(h.t, file) :
       h \in {HasOriginalDexFiles(t)}})

\* Variant: without image info the oat file is accepted whether or not the
\* original dex files are there
ImageStatus_AlwaysAccept(t, file) ==
  IF DependsOnImageChecksum(file.filter)
  THEN The({IF i.r = NoFile
            THEN The({RelocationStatus(h.t, file) : h \in {HasOriginalDexFiles(i.t)}})
            ELSE IF file.image_checksum # i.r.oat_checksum
            THEN [t |-> i.t, r |-> kOatBootImageOutOfDate]
            ELSE RelocationStatus(i.t, file) :
            i \in {GetImageInfo(t)}})
  ELSE RelocationStatus(t, file)

\* The image checksum test, reached once the dex checksums are up to date
ImageStatus(t, file) ==
  IF DependsOnImageChecksum(file.filter)
  THEN The({IF i.r = NoFile
            THEN NoImageStatus(i.t, file)
            ELSE IF file.image_checksum # i.r.oat_checksum
            THEN [t |-> i.t, r |-> kOatBootImageOutOfDate]
            ELSE RelocationStatus(i.t, file) :
            i \in {GetImageInfo(t)}})
  ELSE RelocationStatus(t, file)

\* Variant: the dex checksums are verified before the read barrier state
GivenOatFileStatus_ChecksumFirst(t, file) ==
  The({IF ~c.r THEN [t |-> c.t, r |-> kOatDexOutOfDate]
       ELSE IF file.is_cc # kUseReadBarrier THEN [t |-> c.t, r |-> kOatCannotOpen]
       ELSE ImageStatus(c.t, file) :
       c \in {IF kIsVdexEnabled
              THEN DexChecksumUpToDateVdex(t, file.vdex)
              ELSE DexChecksumUpToDateOat(t, file.dex_checksums)}})

GivenOatFileStatus(t, file) ==
  IF file.is_cc # kUseReadBarrier
  THEN [t |-> t, r |-> kOatCannotOpen]
  ELSE The({IF ~c.r THEN [t |-> c.t, r |-> kOatDexOutOfDate]
            ELSE ImageStatus(c.t, file) :
            c \in {IF kIsVdexEnabled
                   THEN DexChecksumUpToDateVdex(t, file.vdex)
                   ELSE DexChecksumUpToDateOat(t, file.dex_checksums)}})

\* ------------------------------------------------------------------------
\* OatFileInfo
\* ------------------------------------------------------------------------
\* The branch of Status for a candidate whose oat file did not open: is there
\* a vdex file to make use of
VdexStatus(t, l) ==
  The({IF vdex = NoFile THEN [t |-> t, r |-> kOatCannotOpen]
       ELSE The({[t |-> c.t,
                  r |-> IF c.r THEN kOatBootImageOutOfDate ELSE kOatDexOutOfDate] :
                 c \in {DexChecksumUpToDateVdex(t, vdex.checksums)}}) :
       vdex \in {VdexFileOpen(t, l)}})

\* Variant: a vdex file with the required checksums stands for an up to date
\* oat file
Status_VdexUpToDate(t, l) ==
  IF t[l].status_attempted_ THEN [t |-> t, r |-> t[l].status_]
  ELSE The({[t |-> [s.t EXCEPT ![l].status_ = s.r], r |-> s.r] :
            s \in {The({IF g.r # NoFile THEN GivenOatFileStatus(g.t, g.r)
                        ELSE IF VdexFileOpen(g.t, l) = NoFile
                        THEN [t |-> g.t, r |-> kOatCannotOpen]
                        ELSE The({[t |-> c.t,
                                   r |-> IF c.r THEN kOatUpToDate ELSE kOatDexOutOfDate] :
                                  c \in {DexChecksumUpToDateVdex(
                                           g.t, VdexFileOpen(g.t, l).checksums)}}) :
                        g \in {GetFile([t EXCEPT ![l].status_attempted_ = TRUE], l)}})}})

\* OatFileInfo::Status
Status(t, l) ==
  IF t[l].status_attempted_ THEN [t |-> t, r |-> t[l].status_]
  ELSE The({[t |-> [s.t EXCEPT ![l].status_ = s.r], r |-> s.r] :
            s \in {The({IF g.r = NoFile
                        THEN VdexStatus(g.t, l)
                        ELSE GivenOatFileStatus(g.t, g.r) :
                        g \in {GetFile([t EXCEPT ![l].status_attempted_ = TRUE], l)}})}})

\* OatFileInfo::IsUseable
IsUseable(t, l) ==
  The({[t |-> s.t, r |-> s.r \in {kOatRelocationOutOfDate, kOatUpToDate}] :
       s \in {Status(t, l)}})

\* Variant: IsAsGoodAs is asked the wrong way round
CompilerFilterIsOkay_Swapped(t, l, target, profile_changed) ==
  The({[t |-> g.t,
        r |-> IF g.r = NoFile THEN FALSE
              ELSE IF profile_changed /\ DependsOnProfile(g.r.filter) THEN FALSE
              ELSE IsAsGoodAs(target, g.r.filter)] :
       g \in {GetFile(t, l)}})

\* Variant: a change of the profile is not looked at
CompilerFilterIsOkay_IgnoreProfile(t, l, target, profile_changed) ==
  The({[t |-> g.t,
        r |-> IF g.r = NoFile THEN FALSE
              ELSE IsAsGoodAs(g.r.filter, target)] :
       g \in {GetFile(t, l)}})

\* OatFileInfo::CompilerFilterIsOkay
CompilerFilterIsOkay(t, l, target, profile_changed) ==
  The({[t |-> g.t,
        r |-> IF g.r = NoFile THEN FALSE
              ELSE IF profile_changed /\ DependsOnProfile(g.r.filter) THEN FALSE
              ELSE IsAsGoodAs(g.r.filter, target)] :
       g \in {GetFile(t, l)}})

\* Variant: required checksums of any origin are taken for the original dex
\* files
NotUseableDexOptNeeded_FoundChecksums(t, status) ==
  IF status = kOatBootImageOutOfDate
  THEN [t |-> t, r |-> kDex2OatForBootImage]
  ELSE The({[t |-> h.t,
             r |-> IF h.t.required_dex_checksums_found_
                   THEN kDex2OatFromScratch ELSE kNoDexOptNeeded] :
            h \in {HasOriginalDexFiles(t)}})

\* The last two tests of OatFileInfo::GetDexOptNeeded, on a status that is not
\* usable
NotUseableDexOptNeeded(t, status) ==
  IF status = kOatBootImageOutOfDate
  THEN [t |-> t, r |-> kDex2OatForBootImage]
  ELSE The({[t |-> h.t, r |-> IF h.r THEN kDex2OatFromScratch ELSE kNoDexOptNeeded] :
            h \in {HasOriginalDexFiles(t)}})

\* Variant: relocation is asked for whatever the target
InfoGetDexOptNeeded_AlwaysRelocate(t, l, target, profile_changed) ==
  The({The({[t |-> d.t, r |-> d.r, filter_okay |-> f.r] : d \in {The({
            IF f.r /\ s.r = kOatUpToDate
            THEN [t |-> s.t, r |-> kNoDexOptNeeded]
            ELSE IF f.r /\ s.r = kOatRelocationOutOfDate
            THEN [t |-> s.t, r |-> kDex2OatForRelocation]
            ELSE IF IsUseable(s.t, l).r
            THEN [t |-> s.t, r |-> kDex2OatForFilter]
            ELSE NotUseableDexOptNeeded(s.t, s.r) :
            s \in {Status(f.t, l)}})}}) :
       f \in {CompilerFilterIsOkay(t, l, target, profile_changed)}})

\* Variant: an oat file that needs relocation is relocated whatever its filter
InfoGetDexOptNeeded_RelocateAnyFilter(t, l, target, profile_changed) ==
  The({The({[t |-> d.t, r |-> d.r, filter_okay |-> f.r] : d \in {The({
            IF f.r /\ s.r = kOatUpToDate
            THEN [t |-> s.t, r |-> kNoDexOptNeeded]
            ELSE IF f.r /\ ~IsAotCompilationEnabled(target)
                    /\ s.r = kOatRelocationOutOfDate
            THEN [t |-> s.t, r |-> kNoDexOptNeeded]
            ELSE IF s.r = kOatRelocationOutOfDate
            THEN [t |-> s.t, r |-> kDex2OatForRelocation]
            ELSE IF IsUseable(s.t, l).r
            THEN [t |-> s.t, r |-> kDex2OatForFilter]
            ELSE NotUseableDexOptNeeded(s.t, s.r) :
            s \in {Status(f.t, l)}})}}) :
       f \in {CompilerFilterIsOkay(t, l, target, profile_changed)}})

\* Variant: the original dex files are looked for before the status is
\* compared with kOatBootImageOutOfDate
InfoGetDexOptNeeded_ScratchFirst(t, l, target, profile_changed) ==
  The({The({[t |-> d.t, r |-> d.r, filter_okay |-> f.r] : d \in {The({
            IF f.r /\ s.r = kOatUpToDate
            THEN [t |-> s.t, r |-> kNoDexOptNeeded]
            ELSE IF f.r /\ ~IsAotCompilationEnabled(target)
                    /\ s.r = kOatRelocationOutOfDate
            THEN [t |-> s.t, r |-> kNoDexOptNeeded]
            ELSE IF f.r /\ s.r = kOatRelocationOutOfDate
            THEN [t |-> s.t, r |-> kDex2OatForRelocation]
            ELSE IF IsUseable(s.t, l).r
            THEN [t |-> s.t, r |-> kDex2OatForFilter]
            ELSE The({IF h.r THEN [t |-> h.t, r |-> kDex2OatFromScratch]
                      ELSE [t |-> h.t,
                            r |-> IF s.r = kOatBootImageOutOfDate
                                  THEN kDex2OatForBootImage ELSE kNoDexOptNeeded] :
                      h \in {HasOriginalDexFiles(s.t)}}) :
            s \in {Status(f.t, l)}})}}) :
       f \in {CompilerFilterIsOkay(t, l, target, profile_changed)}})

\* OatFileInfo::GetDexOptNeeded: f is filter_okay, ~IsAotCompilationEnabled(target)
\* is !compilation_desired.  Status() caches its result, so the calls the code
\* makes one after the other all return s.  The result carries the value of the
\* local filter_okay next to the decision r.
InfoGetDexOptNeeded(t, l, target, profile_changed) ==
  The({The({[t |-> d.t, r |-> d.r, filter_okay |-> f.r] : d \in {The({
            IF f.r /\ s.r = kOatUpToDate
            THEN [t |-> s.t, r |-> kNoDexOptNeeded]
            ELSE IF f.r /\ ~IsAotCompilationEnabled(target)
                    /\ s.r = kOatRelocationOutOfDate
            THEN [t |-> s.t, r |-> kNoDexOptNeeded]
            ELSE IF f.r /\ s.r = kOatRelocationOutOfDate
            THEN [t |-> s.t, r |-> kDex2OatForRelocation]
            ELSE IF IsUseable(s.t, l).r
            THEN [t |-> s.t, r |-> kDex2OatForFilter]
            ELSE NotUseableDexOptNeeded(s.t, s.r) :
            s \in {Status(f.t, l)}})}}) :
       f \in {CompilerFilterIsOkay(t, l, target, profile_changed)}})

\* ------------------------------------------------------------------------
\* OatFileAssistant::GetBestInfo: the member that is selected
\* ------------------------------------------------------------------------
\* Variant: the odex location is preferred when its file opens, whatever its
\* status
BestWithoutUpToDate_OpenedFile(t) ==
  The({IF h.r THEN [t |-> h.t, r |-> "oat_"]
       ELSE The({The({[t |-> g.t, r |-> IF g.r = NoFile THEN "oat_" ELSE "odex_"] :
                      g \in {GetFile(s.t, "odex_")}}) :
                 s \in {Status(h.t, "odex_")}}) :
       h \in {HasOriginalDexFiles(t)}})

\* The oat location is not usable and the odex file is not up to date
BestWithoutUpToDate(t) ==
  The({IF h.r THEN [t |-> h.t, r |-> "oat_"]
       ELSE The({[t |-> s.t, r |-> IF s.r = kOatCannotOpen THEN "oat_" ELSE "odex_"] :
                 s \in {Status(h.t, "odex_")}}) :
       h \in {HasOriginalDexFiles(t)}})

\* Variant: an odex file that is usable is preferred, up to date or not
BestWithoutUseableOat_AnyUseable(t) ==
  The({IF s.r \in {kOatRelocationOutOfDate, kOatUpToDate} THEN [t |-> s.t, r |-> "odex_"]
       ELSE BestWithoutUpToDate(s.t) :
       s \in {Status(t, "odex_")}})

\* The oat location is not usable
BestWithoutUseableOat(t) ==
  The({IF s.r = kOatUpToDate THEN [t |-> s.t, r |-> "odex_"]
       ELSE BestWithoutUpToDate(s.t) :
       s \in {Status(t, "odex_")}})

\* Variant: the odex location is not preferred when the directory is writable
GetBestInfo_IgnoreWritable(t) ==
  The({IF u.r THEN [t |-> u.t, r |-> "oat_"]
       ELSE BestWithoutUseableOat(u.t) :
       u \in {IsUseable(t, "oat_")}})

GetBestInfo(t) ==
  IF t.dex_parent_writable_ THEN [t |-> t, r |-> "odex_"]
  ELSE The({IF u.r THEN [t |-> u.t, r |-> "oat_"]
            ELSE BestWithoutUseableOat(u.t) :
            u \in {IsUseable(t, "oat_")}})

\* Variant: every decision about the odex file is negated
GetDexOptNeeded_NegateScratch(t, target, profile_changed) ==
  The({The({[t |-> d.t,
             info |-> b.r,
             filter_okay |-> d.filter_okay,
             dexopt_needed |-> d.r,
             r |-> IF b.r = "oat_" THEN d.r ELSE 0 - d.r] :
            d \in {InfoGetDexOptNeeded(b.t, b.r, target, profile_changed)}}) :
       b \in {GetBestInfo(t)}})

\* OatFileAssistant::GetDexOptNeeded: the selected member, its decision and the
\* signed result
GetDexOptNeeded(t, target, profile_changed) ==
  The({The({[t |-> d.t,
             info |-> b.r,
             filter_okay |-> d.filter_okay,
             dexopt_needed |-> d.r,
             r |-> IF b.r = "oat_" \/ d.r = kDex2OatFromScratch THEN d.r ELSE 0 - d.r] :
            d \in {InfoGetDexOptNeeded(b.t, b.r, target, profile_changed)}}) :
       b \in {GetBestInfo(t)}})

\* ------------------------------------------------------------------------
\* OatFileAssistant::MakeUpToDate and the generation of an oat file
\* ------------------------------------------------------------------------
\* OatFileAssistant::ResultOfAttemptToUpdate
kUpdateFailed == "kUpdateFailed"
kUpdateNotAttempted == "kUpdateNotAttempted"
kUpdateSucceeded == "kUpdateSucceeded"

\* The step of a generation that fails, if any: the run of a generation is
\* decided by the first call of the system that fails
Faults ==
  {"none", "dex2oat_disabled", "stat", "stat_dir", "mkdir", "chmod_dir", "create_vdex",
   "fchmod_vdex", "create_oat", "fchmod_oat", "exec", "close_vdex", "close_oat"}

\* The compiler options of the runtime: no --compiler-filter (the default
\* filter), --compiler-filter=speed-profile, --compiler-filter=speed, or a
\* --compiler-filter that does not parse
kDefaultCompilerFilterForDexLoading == kQuicken
CompilerOptions ==
  {[ok |-> TRUE, filter |-> kDefaultCompilerFilterForDexLoading],
   [ok |-> TRUE, filter |-> kSpeedProfile],
   [ok |-> TRUE, filter |-> kSpeed],
   [ok |-> FALSE, filter |-> kDefaultCompilerFilterForDexLoading]}

\* GetRuntimeCompilerFilterOption
GetRuntimeCompilerFilterOption(option) == option

\* Variant: the file is dropped and the cached status is kept
Reset_KeepStatus(t, l) ==
  [t EXCEPT ![l].load_attempted_ = FALSE,
            ![l].file_ = NoFile]

\* Variant: a reset of a candidate also forgets the boot image and the
\* required checksums of the assistant
Reset_ClearCaches(t, l) ==
  [t EXCEPT ![l].load_attempted_ = FALSE,
            ![l].file_ = NoFile,
            ![l].status_attempted_ = FALSE,
            !.image_info_load_attempted_ = FALSE,
            !.required_dex_checksums_attempted_ = FALSE]

\* OatFileInfo::Reset()
Reset(t, l) ==
  [t EXCEPT ![l].load_attempted_ = FALSE,
            ![l].file_ = NoFile,
            ![l].status_attempted_ = FALSE]

\* PrepareDirectory on the n-th directory of the odex file (1: oat/, 2:
\* oat/<isa>/), `dirs` of which exist.  The stat of the path fails with an
\* errno other than ENOENT, or finds what is not a directory ("stat_dir");
\* mkdir fails in a directory that is not writable.
PrepareDirectory(t, n, dirs, fault) ==
  IF fault = "stat_dir" THEN [ok |-> FALSE, dirs |-> dirs, writes |-> <<>>]
  ELSE IF dirs >= n THEN [ok |-> TRUE, dirs |-> dirs, writes |-> <<>>]
  ELSE IF fault = "mkdir" \/ (n = 1 /\ ~t.dex_parent_writable_)
  THEN [ok |-> FALSE, dirs |-> dirs, writes |-> <<>>]
  ELSE IF fault = "chmod_dir"
  THEN [ok |-> FALSE, dirs |-> n, writes |-> <<"mkdir">>]
  ELSE [ok |-> TRUE, dirs |-> n, writes |-> <<"mkdir", "chmod">>]

\* PrepareOdexDirectories
PrepareOdexDirectories(t, dirs, fault) ==
  The({IF ~a.ok THEN a
       ELSE The({[ok |-> b.ok, dirs |-> b.dirs, writes |-> a.writes \o b.writes] :
                 b \in {PrepareDirectory(t, 2, a.dirs, fault)}}) :
       a \in {PrepareDirectory(t, 1, dirs, fault)}})

\* OatFileAssistant::ImageLocation: empty when the runtime has no boot image
ImageLocation == IF boot_image = NoFile THEN "" ELSE "boot.art"

\* Exec of dex2oat: it fails when it cannot be started, when it exits with an
\* error, and it has nothing to compile when the dex files cannot be read
Exec(fault) == fault # "exec" /\ dex_file.readable

\* The oat file dex2oat writes for --compiler-filter=filter
Dex2OatOutput(filter) == [BaselineOat(dex_file.checksums) EXCEPT !.filter = filter]

\* OatFileAssistant::Dex2Oat
Dex2Oat(fault) ==
  IF ImageLocation = "" THEN [ok |-> FALSE, writes |-> <<>>]
  ELSE [ok |-> Exec(fault), writes |-> <<"dex2oat">>]

\* What a generation leaves: the assistant, the result, the files at the
\* filename of the candidate, the directories, the calls that wrote, and what
\* Dex2Oat returned if it was called
Generated(t, r, files, dirs, writes, dex2oat) ==
  [t |-> t, r |-> r, files |-> files, dirs |-> dirs, writes |-> writes,
   dex2oat |-> dex2oat]

\* Variant of WriteOutputs: after dex2oat failed the oat file is deleted and the
\* vdex file is left as it was created
WriteOutputs_KeepVdex(t, l, filter, fault, dirs, w) ==
  IF fault = "create_vdex"
  THEN Generated(t, kUpdateNotAttempted, disk[l], dirs, w, "not called")
  ELSE IF fault = "fchmod_vdex"
  THEN Generated(t, kUpdateNotAttempted, [disk[l] EXCEPT !.vdex = EmptyFile], dirs,
                 w \o <<"create vdex">>, "not called")
  ELSE IF fault = "create_oat"
  THEN Generated(t, kUpdateNotAttempted, [disk[l] EXCEPT !.vdex = EmptyFile], dirs,
                 w \o <<"create vdex", "fchmod vdex">>, "not called")
  ELSE IF fault = "fchmod_oat"
  THEN Generated(t, kUpdateNotAttempted, [oat |-> EmptyFile, vdex |-> EmptyFile], dirs,
                 w \o <<"create vdex", "fchmod vdex", "create oat", "erase oat">>, "not called")
  ELSE The({
    IF ~c.ok
    THEN Generated(t, kUpdateFailed, [oat |-> NoFile, vdex |-> EmptyFile], dirs,
                   c.w \o <<"erase oat", "unlink oat">>, "false")
    ELSE IF fault = "close_vdex"
    THEN Generated(t, kUpdateFailed, [oat |-> Dex2OatOutput(filter), vdex |-> NoFile],
                   dirs, c.w \o <<"unlink vdex">>, "true")
    ELSE IF fault = "close_oat"
    THEN Generated(t, kUpdateFailed,
                   [oat |-> NoFile, vdex |-> [checksums |-> dex_file.checksums]],
                   dirs, c.w \o <<"close vdex", "unlink oat">>, "true")
    ELSE Generated(Reset(t, l), kUpdateSucceeded, Compiled(Dex2OatOutput(filter)),
                   dirs, c.w \o <<"close vdex", "close oat">>, "true") :
    c \in {The({[ok |-> x.ok,
                 w |-> w \o <<"create vdex", "fchmod vdex", "create oat", "fchmod oat">>
                         \o x.writes] :
                x \in {Dex2Oat(fault)}})}})

\* GenerateOatFileNoChecks from OS::CreateEmptyFile(vdex_file_name) on
WriteOutputs(t, l, filter, fault, dirs, w) ==
  IF fault = "create_vdex"
  THEN Generated(t, kUpdateNotAttempted, disk[l], dirs, w, "not called")
  ELSE IF fault = "fchmod_vdex"
  THEN Generated(t, kUpdateNotAttempted, [disk[l] EXCEPT !.vdex = EmptyFile], dirs,
                 w \o <<"create vdex">>, "not called")
  ELSE IF fault = "create_oat"
  THEN Generated(t, kUpdateNotAttempted, [disk[l] EXCEPT !.vdex = EmptyFile], dirs,
                 w \o <<"create vdex", "fchmod vdex">>, "not called")
  ELSE IF fault = "fchmod_oat"
  THEN Generated(t, kUpdateNotAttempted, [oat |-> EmptyFile, vdex |-> EmptyFile], dirs,
                 w \o <<"create vdex", "fchmod vdex", "create oat", "erase oat">>, "not called")
  ELSE The({
    IF ~c.ok
    THEN Generated(t, kUpdateFailed, NoCandidate, dirs,
                   c.w \o <<"erase vdex", "unlink vdex", "erase oat", "unlink oat">>, "false")
    ELSE IF fault = "close_vdex"
    THEN Generated(t, kUpdateFailed, [oat |-> Dex2OatOutput(filter), vdex |-> NoFile],
                   dirs, c.w \o <<"unlink vdex">>, "true")
    ELSE IF fault = "close_oat"
    THEN Generated(t, kUpdateFailed,
                   [oat |-> NoFile, vdex |-> [checksums |-> dex_file.checksums]],
                   dirs, c.w \o <<"close vdex", "unlink oat">>, "true")
    ELSE Generated(Reset(t, l), kUpdateSucceeded, Compiled(Dex2OatOutput(filter)),
                   dirs, c.w \o <<"close vdex", "close oat">>, "true") :
    c \in {The({[ok |-> x.ok,
                 w |-> w \o <<"create vdex", "fchmod vdex", "create oat", "fchmod oat">>
                         \o x.writes] :
                x \in {Dex2Oat(fault)}})}})

\* Variant: the cached file and status are kept after the oat file is written
GenerateOatFileNoChecks_NoReset(t, l, filter, fault) ==
  IF fault = "dex2oat_disabled" \/ ~t[l].filename_provided_ \/ fault = "stat"
  THEN Generated(t, kUpdateNotAttempted, disk[l], odex_dirs, <<>>, "not called")
  ELSE The({IF ~p.ok
            THEN Generated(t, kUpdateNotAttempted, disk[l], p.dirs, p.writes, "not called")
            ELSE The({[g EXCEPT !.t = t] :
                      g \in {WriteOutputs(t, l, filter, fault, p.dirs, p.writes)}}) :
            p \in {IF l = "odex_"
                   THEN PrepareOdexDirectories(t, odex_dirs, fault)
                   ELSE [ok |-> TRUE, dirs |-> odex_dirs, writes |-> <<>>]}})

\* Variant: the dex location is not stat'ed before the directories are made
GenerateOatFileNoChecks_NoStat(t, l, filter, fault) ==
  IF fault = "dex2oat_disabled" \/ ~t[l].filename_provided_
  THEN Generated(t, kUpdateNotAttempted, disk[l], odex_dirs, <<>>, "not called")
  ELSE The({IF ~p.ok
            THEN Generated(t, kUpdateNotAttempted, disk[l], p.dirs, p.writes, "not called")
            ELSE WriteOutputs(t, l, filter, fault, p.dirs, p.writes) :
            p \in {IF l = "odex_"
                   THEN PrepareOdexDirectories(t, odex_dirs, fault)
                   ELSE [ok |-> TRUE, dirs |-> odex_dirs, writes |-> <<>>]}})

\* Variant: the directories are prepared for the oat location too
GenerateOatFileNoChecks_AlwaysPrepare(t, l, filter, fault) ==
  IF fault = "dex2oat_disabled" \/ ~t[l].filename_provided_ \/ fault = "stat"
  THEN Generated(t, kUpdateNotAttempted, disk[l], odex_dirs, <<>>, "not called")
  ELSE The({IF ~p.ok
            THEN Generated(t, kUpdateNotAttempted, disk[l], p.dirs, p.writes, "not called")
            ELSE WriteOutputs(t, l, filter, fault, p.dirs, p.writes) :
            p \in {PrepareOdexDirectories(t, odex_dirs, fault)}})

\* OatFileAssistant::GenerateOatFileNoChecks
GenerateOatFileNoChecks(t, l, filter, fault) ==
  IF fault = "dex2oat_disabled" \/ ~t[l].filename_provided_ \/ fault = "stat"
  THEN Generated(t, kUpdateNotAttempted, disk[l], odex_dirs, <<>>, "not called")
  ELSE The({IF ~p.ok
            THEN Generated(t, kUpdateNotAttempted, disk[l], p.dirs, p.writes, "not called")
            ELSE WriteOutputs(t, l, filter, fault, p.dirs, p.writes) :
            p \in {IF l = "odex_"
                   THEN PrepareOdexDirectories(t, odex_dirs, fault)
                   ELSE [ok |-> TRUE, dirs |-> odex_dirs, writes |-> <<>>]}})

\* Variant: the oat file is generated whatever the decision
MakeUpToDate_AlwaysGenerate(t, profile_changed, option) ==
  IF ~GetRuntimeCompilerFilterOption(option).ok
  THEN {[t |-> t, r |-> kUpdateNotAttempted, info |-> "none", dexopt_needed |-> 0 - 1,
         decided |-> t, dex2oat |-> "not called", files |-> NoCandidate,
         fault |-> "none",
         dirs |-> odex_dirs, writes |-> <<>>]}
  ELSE The({The({IF FALSE
                 THEN {[t |-> d.t, r |-> kUpdateSucceeded, info |-> b.r,
                        dexopt_needed |-> d.r, decided |-> d.t, dex2oat |-> "not called",
                        files |-> disk[b.r], dirs |-> odex_dirs, writes |-> <<>>,
                        fault |-> "none"]}
                 ELSE {The({[t |-> g.t, r |-> g.r, info |-> b.r, dexopt_needed |-> d.r,
                             decided |-> d.t, dex2oat |-> g.dex2oat, files |-> g.files,
                             dirs |-> g.dirs, writes |-> g.writes, fault |-> fault] :
                            g \in {GenerateOatFileNoChecks(d.t, b.r, option.filter, fault)}}) :
                       fault \in Faults} :
                 d \in {InfoGetDexOptNeeded(b.t, b.r, option.filter, profile_changed)}}) :
            b \in {GetBestInfo(t)}})

\* Variant: a compiler filter that does not parse is taken for the default
MakeUpToDate_IgnoreOption(t, profile_changed, option) ==
  The({The({IF d.r = kNoDexOptNeeded
            THEN {[t |-> d.t, r |-> kUpdateSucceeded, info |-> b.r,
                   dexopt_needed |-> d.r, decided |-> d.t, dex2oat |-> "not called",
                   files |-> disk[b.r], dirs |-> odex_dirs, writes |-> <<>>,
                   fault |-> "none"]}
            ELSE {The({[t |-> g.t, r |-> g.r, info |-> b.r, dexopt_needed |-> d.r,
                        decided |-> d.t, dex2oat |-> g.dex2oat, files |-> g.files,
                        dirs |-> g.dirs, writes |-> g.writes, fault |-> fault] :
                       g \in {GenerateOatFileNoChecks(d.t, b.r, option.filter, fault)}}) :
                  fault \in Faults} :
            d \in {InfoGetDexOptNeeded(b.t, b.r, option.filter, profile_changed)}}) :
       b \in {GetBestInfo(t)}})

\* OatFileAssistant::MakeUpToDate: the results it can have, one for each way the
\* generation can run (the step that fails, if any).  A result comes with the
\* selected member, its decision and the assistant as it was when the decision
\* was taken.
MakeUpToDate(t, profile_changed, option) ==
  IF ~GetRuntimeCompilerFilterOption(option).ok
  THEN {[t |-> t, r |-> kUpdateNotAttempted, info |-> "none", dexopt_needed |-> 0 - 1,
         decided |-> t, dex2oat |-> "not called", files |-> NoCandidate,
         fault |-> "none",
         dirs |-> odex_dirs, writes |-> <<>>]}
  ELSE The({The({IF d.r = kNoDexOptNeeded
                 THEN {[t |-> d.t, r |-> kUpdateSucceeded, info |-> b.r,
                        dexopt_needed |-> d.r, decided |-> d.t, dex2oat |-> "not called",
                        files |-> disk[b.r], dirs |-> odex_dirs, writes |-> <<>>,
                        fault |-> "none"]}
                 ELSE {The({[t |-> g.t, r |-> g.r, info |-> b.r, dexopt_needed |-> d.r,
                             decided |-> d.t, dex2oat |-> g.dex2oat, files |-> g.files,
                             dirs |-> g.dirs, writes |-> g.writes, fault |-> fault] :
                            g \in {GenerateOatFileNoChecks(d.t, b.r, option.filter, fault)}}) :
                       fault \in Faults} :
                 d \in {InfoGetDexOptNeeded(b.t, b.r, option.filter, profile_changed)}}) :
            b \in {GetBestInfo(t)}})

\* ------------------------------------------------------------------------
\* OatFileAssistant::GetBestOatFile and OatFileAssistant::GetStatusDump
\* ------------------------------------------------------------------------
\* OatFileInfo::IsExecutable
IsExecutable(t, l) ==
  The({[t |-> g.t, r |-> g.r # NoFile /\ g.r.executable] : g \in {GetFile(t, l)}})

\* OatFileInfo::ReleaseFile: std::move(file_) leaves file_ null
ReleaseFile(t, l) ==
  [t |-> [t EXCEPT ![l].file_released_ = TRUE, ![l].file_ = NoFile], r |-> t[l].file_]

\* The last branch of ReleaseFileForUse: the file needs relocation and was
\* loaded executable, it is loaded again not executable
ReloadNotExecutable(t, l) ==
  The({IF ~u.r THEN [t |-> u.t, r |-> NoFile]
       ELSE The({IF x.r THEN [t |-> [x.t EXCEPT !.aborted = TRUE], r |-> NoFile]
                 ELSE ReleaseFile(x.t, l) :
                 x \in {IsExecutable(u.t, l)}}) :
       u \in {IsUseable(Reset([t EXCEPT !.load_executable_ = FALSE], l), l)}})

\* Variant: the file of a candidate that needs relocation is handed out as it
\* was loaded
ReleaseFileForUse_AsLoaded(t, l) ==
  The({IF s.r \in {kOatUpToDate, kOatRelocationOutOfDate} THEN ReleaseFile(s.t, l)
       ELSE [t |-> s.t, r |-> NoFile] :
       s \in {Status(t, l)}})

\* OatFileInfo::ReleaseFileForUse
ReleaseFileForUse(t, l) ==
  The({IF s.r = kOatUpToDate THEN ReleaseFile(s.t, l)
       ELSE IF s.r # kOatRelocationOutOfDate THEN [t |-> s.t, r |-> NoFile]
       ELSE The({IF ~e.r THEN ReleaseFile(e.t, l)
                 ELSE ReloadNotExecutable(e.t, l) :
                 e \in {IsExecutable(s.t, l)}}) :
       s \in {Status(t, l)}})

\* OatFileAssistant::GetBestOatFile
GetBestOatFile(t) ==
  The({The({[t |-> f.t, info |-> b.r, r |-> f.r] : f \in {ReleaseFileForUse(b.t, b.r)}}) :
       b \in {GetBestInfo(t)}})

\* Variant: the filename is required of every candidate, also of one that
\* cannot be opened
DumpOf_CheckFilename(t, l) ==
  The({IF ~s.t[l].filename_provided_
       THEN [t |-> [s.t EXCEPT !.aborted = TRUE], r |-> <<>>]
       ELSE IF s.r = kOatCannotOpen THEN [t |-> s.t, r |-> <<>>]
       ELSE The({[t |-> g.t,
                  r |-> <<[info |-> l, status |-> s.r,
                           compilation_filter |->
                             IF g.r = NoFile THEN 0 ELSE g.r.filter]>>] :
                 g \in {GetFile(s.t, l)}}) :
       s \in {Status(t, l)}})

\* The part of the status dump about candidate l: nothing if it cannot be
\* opened, else its status and its filter, or "vdex-only"
DumpOf(t, l) ==
  The({IF s.r = kOatCannotOpen THEN [t |-> s.t, r |-> <<>>]
       ELSE IF ~s.t[l].filename_provided_
       THEN [t |-> [s.t EXCEPT !.aborted = TRUE], r |-> <<>>]
       ELSE The({[t |-> g.t,
                  r |-> <<[info |-> l, status |-> s.r,
                           compilation_filter |->
                             IF g.r = NoFile THEN 0 ELSE g.r.filter]>>] :
                 g \in {GetFile(s.t, l)}}) :
       s \in {Status(t, l)}})

\* OatFileAssistant::GetStatusDump: the oat location first, <<>> is "invalid[]"
GetStatusDump(t) ==
  The({The({[t |-> b.t, r |-> a.r \o b.r] : b \in {DumpOf(a.t, "odex_")}}) :
       a \in {DumpOf(t, "oat_")}})

\* ------------------------------------------------------------------------
\* The names of the odex file and of the oat file of a dex location.  A path
\* is the sequence of its characters.
\* ------------------------------------------------------------------------
MaxPath == 4         \* characters of a location given to DexLocationToOdexFilename

\* std::string::npos, where positions count from 1
npos == 0

\* GetInstructionSetString(isa_)
kIsaString == <<"a", "r", "m">>

\* s.rfind(c): the last position of c in s at or before `from`
RECURSIVE rfind(_, _, _)
rfind(s, c, from) ==
  IF from = 0 THEN npos
  ELSE IF s[from] = c THEN from
  ELSE rfind(s, c, from - 1)

\* s.find(c): the first position of c in s at or after `from`
RECURSIVE find(_, _, _)
find(s, c, from) ==
  IF from > Len(s) THEN npos
  ELSE IF s[from] = c THEN from
  ELSE find(s, c, from + 1)

\* What DexLocationToOdexNames returns and what it has stored by then
OdexNames(ok, odex_filename, oat_dir, isa_dir, error_msg) ==
  [ok |-> ok, odex_filename |-> odex_filename, oat_dir |-> oat_dir,
   isa_dir |-> isa_dir, error_msg |-> error_msg]

\* Variant: the directory ends at the first '/' of the location
DexLocationToOdexNames_FirstSlash(location, isa) ==
  The({IF pos = npos
       THEN OdexNames(FALSE, <<>>, <<>>, <<>>, "has no directory.")
       ELSE The({The({IF dot = npos
                      THEN OdexNames(FALSE, <<>>, n.oat_dir, n.isa_dir, "has no extension.")
                      ELSE OdexNames(TRUE,
                                     n.isa_dir \o <<"/">> \o SubSeq(n.file, 1, dot - 1)
                                       \o <<".", "o", "d", "e", "x">>,
                                     n.oat_dir, n.isa_dir, "") :
                      dot \in {rfind(n.file, ".", Len(n.file))}}) :
                 n \in {[oat_dir |-> SubSeq(location, 1, pos) \o <<"o", "a", "t">>,
                         isa_dir |-> SubSeq(location, 1, pos) \o <<"o", "a", "t", "/">> \o isa,
                         file |-> SubSeq(location, pos + 1, Len(location))]}}) :
       pos \in {find(location, "/", 1)}})

\* DexLocationToOdexNames: location.substr(0, pos+1) is SubSeq(location, 1, pos)
\* and file.substr(0, pos) is SubSeq(file, 1, dot - 1) with positions from 1
DexLocationToOdexNames(location, isa) ==
  The({IF pos = npos
       THEN OdexNames(FALSE, <<>>, <<>>, <<>>, "has no directory.")
       ELSE The({The({IF dot = npos
                      THEN OdexNames(FALSE, <<>>, n.oat_dir, n.isa_dir, "has no extension.")
                      ELSE OdexNames(TRUE,
                                     n.isa_dir \o <<"/">> \o SubSeq(n.file, 1, dot - 1)
                                       \o <<".", "o", "d", "e", "x">>,
                                     n.oat_dir, n.isa_dir, "") :
                      dot \in {rfind(n.file, ".", Len(n.file))}}) :
                 n \in {[oat_dir |-> SubSeq(location, 1, pos) \o <<"o", "a", "t">>,
                         isa_dir |-> SubSeq(location, 1, pos) \o <<"o", "a", "t", "/">> \o isa,
                         file |-> SubSeq(location, pos + 1, Len(location))]}}) :
       pos \in {rfind(location, "/", Len(location))}})

\* OatFileAssistant::DexLocationToOdexFilename
DexLocationToOdexFilename(location, isa) ==
  The({[ok |-> n.ok, odex_filename |-> n.odex_filename, error_msg |-> n.error_msg] :
       n \in {DexLocationToOdexNames(location, isa)}})

\* GetDalvikCache and GetDalvikCacheFilename: the name in the dalvik cache of
\* an absolute location, '/' escaped as '@'
GetDalvikCacheFilename(location) ==
  IF location = <<>> \/ location[1] # "/"
  THEN [ok |-> FALSE, filename |-> <<>>]
  ELSE [ok |-> TRUE,
        filename |-> <<"/", "c", "/">> \o kIsaString \o <<"/">>
                       \o [i \in 1..(Len(location) - 1) |->
                             IF location[i + 1] = "/" THEN "@" ELSE location[i + 1]]
                       \o <<"@", "c", "l", "a", "s", "s", "e", "s", ".", "d", "e", "x">>]

\* OatFileAssistant::DexLocationToOatFilename
DexLocationToOatFilename(location, isa) ==
  The({[ok |-> c.ok, oat_filename |-> c.filename] : c \in {GetDalvikCacheFilename(location)}})

\* realpath(dex_location) in the root directory, for a location without "." and
\* ".." and without links: NoFile when there is no such file
Realpath(dex_location, exists) ==
  IF ~exists \/ dex_location = <<>> THEN NoFile
  ELSE IF dex_location[1] = "/" THEN dex_location
  ELSE <<"/">> \o dex_location

\* The dex locations an assistant is constructed for
kDexLocation == <<"/", "d", "/", "a", ".", "j">>
DexLocations ==
  {kDexLocation,                          \* /d/a.j
   <<"d", "/", "a", ".", "j">>,            \* d/a.j, relative to the root directory
   <<"/", "d", ".", "x", "/", "a">>,       \* /d.x/a: no extension
   <<"/", "a", ".", "j">>}                 \* /a.j: in the root directory

\* The parent directory of the dex location, <<>> when it has none
DexParent(location) ==
  The({IF pos = npos THEN <<>> ELSE SubSeq(location, 1, pos - 1) :
       pos \in {rfind(location, "/", Len(location))}})

\* ------------------------------------------------------------------------
\* OatFileAssistant::Lock and the lock file
\* ------------------------------------------------------------------------
MaxInode == 3        \* files the lock file can be at a time: one at its name, others
                     \* unlinked and still open

\* The lock file: the name it is at in the file system (<<>>: there is none),
\* the file at that name (0: none), and the files an exclusive flock is held on
NoLockFile == [path |-> <<>>, ino |-> 0, held |-> {}]

\* lock_file_name of OatFileAssistant::Lock
LockFileName(location, isa) ==
  location \o <<".">> \o isa \o <<".", "f", "l", "o", "c", "k">>

\* The files some process has open: that of the assistant, those of the others
OpenInodes ==
  (IF flock_ = NoFile THEN {} ELSE {flock_.ino}) \cup {procs[p].fd : p \in DOMAIN procs}

\* A file that is neither at the name of the lock file nor open
FreshInode(f) == CHOOSE i \in 1..MaxInode : i # f.ino /\ i \notin OpenInodes
HasFreshInode(f) == \E i \in 1..MaxInode : i # f.ino /\ i \notin OpenInodes

\* unlink(name)
Unlink(f, name) == IF f.path = name THEN [f EXCEPT !.path = <<>>, !.ino = 0] ELSE f

\* OS::OpenFileWithFlags(name, O_CREAT | O_RDWR): the file at the name, made if
\* there is none
OpenFileWithFlags(f, name) ==
  IF f.ino # 0 THEN f ELSE [f EXCEPT !.path = name, !.ino = FreshInode(f)]

\* ScopedFlock::Init(name) when no other process has the file locked: open
\* fails, or the file is opened (made if need be) and locked, and it is still
\* the file at its name
ScopedFlockInit(f, name, open_ok) ==
  IF ~open_ok THEN [ok |-> FALSE, flock |-> NoFile, lock_file |-> f]
  ELSE The({[ok |-> TRUE,
             flock |-> [ino |-> o.ino, path |-> name],
             lock_file |-> [o EXCEPT !.held = o.held \cup {o.ino}]] :
            o \in {OpenFileWithFlags(f, name)}})

\* OatFileAssistant::Lock
Lock(flock, f, location, open_ok) ==
  IF flock # NoFile
  THEN [aborted |-> TRUE, r |-> FALSE, flock |-> flock, lock_file |-> f]
  ELSE The({IF ~i.ok
            THEN [aborted |-> FALSE, r |-> FALSE, flock |-> i.flock,
                  lock_file |-> Unlink(i.lock_file, LockFileName(location, kIsaString))]
            ELSE [aborted |-> FALSE, r |-> TRUE, flock |-> i.flock,
                  lock_file |-> i.lock_file] :
            i \in {ScopedFlockInit(f, LockFileName(location, kIsaString), open_ok)}})

\* Variant: the lock file is unlinked whether or not the assistant has it
Destructor_AlwaysUnlink(flock, f, location) ==
  IF flock # NoFile
  THEN The({[u EXCEPT !.held = u.held \ {flock.ino}] : u \in {Unlink(f, flock.path)}})
  ELSE Unlink(f, LockFileName(location, kIsaString))

\* OatFileAssistant::~OatFileAssistant, then ~ScopedFlock, which unlocks and
\* closes the file
Destructor(flock, f, location) ==
  IF flock # NoFile
  THEN The({[u EXCEPT !.held = u.held \ {flock.ino}] : u \in {Unlink(f, flock.path)}})
  ELSE f

\* ------------------------------------------------------------------------
\* Initial states: the assistant after its constructor
\* ------------------------------------------------------------------------
\* The constructor: what it sets from the dex location it is given, whether
\* there is a file at it and whether its directory can be written
OatFileAssistant(dex_location, exists, isa, load_executable, access_ok) ==
  The({IF real = NoFile
       THEN [dex_location_ |-> <<>>,
             load_executable_ |-> load_executable,
             odex_ |-> NewOatFileInfo(FALSE),
             oat_ |-> NewOatFileInfo(FALSE),
             dex_parent_writable_ |-> FALSE]
       ELSE [dex_location_ |-> real,
             load_executable_ |-> load_executable /\ isa = kIsaString,
             odex_ |-> NewOatFileInfo(DexLocationToOdexFilename(real, isa).ok),
             oat_ |-> NewOatFileInfo(DexLocationToOatFilename(real, isa).ok),
             dex_parent_writable_ |-> DexParent(real) # <<>> /\ access_ok] :
       real \in {Realpath(dex_location, exists)}})

InitAssistant ==
  /\ odex_ = NewOatFileInfo(TRUE)
  /\ oat_ = NewOatFileInfo(TRUE)
  /\ required_dex_checksums_attempted_ = FALSE
  /\ required_dex_checksums_found_ = FALSE
  /\ cached_required_dex_checksums_ = <<>>
  /\ has_original_dex_files_ = FALSE
  /\ image_info_load_attempted_ = FALSE
  /\ cached_image_info_ = NoFile
  /\ aborted = FALSE
  /\ call = [op |-> "OatFileAssistant"]

\* One candidate in the dalvik cache, any header, nothing at the odex location
InitGates ==
  /\ disk \in {[odex_ |-> NoCandidate, oat_ |-> c] : c \in GateCandidates}
  /\ dex_file \in {d \in DexFiles : Len(d.checksums) = 1}
  /\ boot_image \in {NoFile, RuntimeImage}
  /\ dex_parent_writable_ = FALSE
  /\ load_executable_ = TRUE

\* One candidate in the dalvik cache, any checksums, nothing at the odex location
InitChecksums ==
  /\ disk \in {[odex_ |-> NoCandidate, oat_ |-> c] : c \in ChecksumCandidates}
  /\ dex_file \in DexFiles
  /\ boot_image \in {NoFile, RuntimeImage}
  /\ dex_parent_writable_ = FALSE
  /\ load_executable_ = TRUE

\* Any two of the few candidates
InitBoth ==
  /\ disk \in [Locations -> FewCandidates]
  /\ dex_file \in DexFiles
  /\ boot_image \in {NoFile, RuntimeImage}
  /\ dex_parent_writable_ \in BOOLEAN
  /\ load_executable_ = TRUE

\* The directories of the odex file exist when there is a file in them
InitDirs == odex_dirs = IF disk["odex_"] = NoCandidate THEN 0 ELSE 2

\* No assistant was observed before
NoPeer == [none |-> TRUE]

\* No thread pool
NoPool == [none |-> TRUE]

\* The dex location is /d/a.j, the assistant has not locked, there is no lock
\* file, no other process and no thread pool
InitOthers ==
  /\ dex_location_ = kDexLocation
  /\ flock_ = NoFile
  /\ lock_file = NoLockFile
  /\ procs = <<>>
  /\ pool = NoPool

Init ==
  /\ InitAssistant
  /\ (InitGates \/ InitChecksums \/ InitBoth)
  /\ InitDirs
  /\ peer = NoPeer
  /\ InitOthers

\* ------------------------------------------------------------------------
\* Calls of the public methods
\* ------------------------------------------------------------------------
\* The fields of the assistant after a method has run on it; after a failed
\* CHECK nothing of the process is left
Commit(t) ==
  IF t.aborted
  THEN /\ aborted' = TRUE
       /\ UNCHANGED <<load_executable_, dex_parent_writable_, odex_, oat_,
                      required_dex_checksums_attempted_, required_dex_checksums_found_,
                      cached_required_dex_checksums_, has_original_dex_files_,
                      image_info_load_attempted_, cached_image_info_>>
  ELSE /\ aborted' = FALSE
       /\ load_executable_' = t.load_executable_
       /\ dex_parent_writable_' = t.dex_parent_writable_
       /\ odex_' = t.odex_
       /\ oat_' = t.oat_
       /\ required_dex_checksums_attempted_' = t.required_dex_checksums_attempted_
       /\ required_dex_checksums_found_' = t.required_dex_checksums_found_
       /\ cached_required_dex_checksums_' = t.cached_required_dex_checksums_
       /\ has_original_dex_files_' = t.has_original_dex_files_
       /\ image_info_load_attempted_' = t.image_info_load_attempted_
       /\ cached_image_info_' = t.cached_image_info_

Returned(t, c) == call' = IF t.aborted THEN [op |-> c.op] ELSE c

\* OatFileAssistant::OdexFileStatus
OdexFileStatus ==
  /\ ~aborted
  /\ \E s \in {Status(This, "odex_")} :
     /\ Commit(s.t)
     /\ Returned(s.t, [op |-> "OdexFileStatus", r |-> s.r])
  /\ UNCHANGED world

\* OatFileAssistant::OatFileStatus
OatFileStatus ==
  /\ ~aborted
  /\ \E s \in {Status(This, "oat_")} :
     /\ Commit(s.t)
     /\ Returned(s.t, [op |-> "OatFileStatus", r |-> s.r])
  /\ UNCHANGED world

\* OatFileAssistant::GetDexOptNeeded(target, profile_changed)
CallGetDexOptNeeded ==
  /\ ~aborted
  /\ \E target \in Filters, profile_changed \in BOOLEAN :
     \E d \in {GetDexOptNeeded(This, target, profile_changed)} :
       /\ Commit(d.t)
       /\ Returned(d.t, [op |-> "GetDexOptNeeded", target |-> target,
                         profile_changed |-> profile_changed, info |-> d.info,
                         filter_okay |-> d.filter_okay,
                         dexopt_needed |-> d.dexopt_needed, r |-> d.r])
  /\ UNCHANGED world

\* OatFileAssistant::IsUpToDate
IsUpToDate ==
  /\ ~aborted
  /\ \E b \in {GetBestInfo(This)} :
     \E s \in {Status(b.t, b.r)} :
       /\ Commit(s.t)
       /\ Returned(s.t, [op |-> "IsUpToDate", info |-> b.r, r |-> s.r = kOatUpToDate])
  /\ UNCHANGED world

\* OatFileAssistant::HasOriginalDexFiles
CallHasOriginalDexFiles ==
  /\ ~aborted
  /\ \E h \in {HasOriginalDexFiles(This)} :
     /\ Commit(h.t)
     /\ Returned(h.t, [op |-> "HasOriginalDexFiles", r |-> h.r])
  /\ UNCHANGED world

\* OatFileAssistant::MakeUpToDate(profile_changed, error_msg), with the compiler
\* options of the runtime; m is one of the ways the call can run
CallMakeUpToDate ==
  /\ ~aborted
  /\ \E profile_changed \in BOOLEAN, option \in CompilerOptions :
     \E m \in MakeUpToDate(This, profile_changed, option) :
       /\ Commit(m.t)
       /\ Returned(m.t, [op |-> "MakeUpToDate", target |-> option.filter,
                         parsed |-> option.ok,
                         profile_changed |-> profile_changed, info |-> m.info,
                         dexopt_needed |-> m.dexopt_needed, decided |-> m.decided,
                         dex2oat |-> m.dex2oat, writes |-> m.writes,
                         fault |-> m.fault, r |-> m.r])
       /\ disk' = IF m.t.aborted \/ m.info \notin Locations THEN disk
                  ELSE [disk EXCEPT ![m.info] = m.files]
       /\ odex_dirs' = IF m.t.aborted THEN odex_dirs ELSE m.dirs
  /\ UNCHANGED <<dex_file, boot_image, peer, others>>

Next ==
  \/ OdexFileStatus
  \/ OatFileStatus
  \/ CallGetDexOptNeeded
  \/ IsUpToDate
  \/ CallHasOriginalDexFiles

Spec == Init /\ [][Next]_vars

\* ------------------------------------------------------------------------
\* The assistant with MakeUpToDate: the queries and the generation of oat
\* files, on one dex file and a few candidates
\* ------------------------------------------------------------------------
UpdateCandidates ==
  LET b == BaselineOat(<<1>>) IN
  {NoCandidate,
   VdexOnly(<<1>>),
   Compiled(b),
   Compiled([b EXCEPT !.filter = kVerify]),
   Compiled([b EXCEPT !.oat_data_begin = 2])}

\* One candidate at least is missing
WorldUpdate ==
  /\ disk \in {d \in [Locations -> UpdateCandidates] :
                 d["odex_"] = NoCandidate \/ d["oat_"] = NoCandidate}
  /\ dex_file \in {d \in DexFiles : d.checksums = <<1>>}
  /\ boot_image \in {NoFile, RuntimeImage}
  /\ dex_parent_writable_ \in BOOLEAN
  /\ load_executable_ = TRUE

NextUpdate ==
  \/ OdexFileStatus
  \/ OatFileStatus
  \/ CallGetDexOptNeeded
  \/ IsUpToDate
  \/ CallHasOriginalDexFiles
  \/ CallMakeUpToDate

InitUpdate ==
  /\ InitAssistant
  /\ WorldUpdate
  /\ InitDirs
  /\ peer = NoPeer
  /\ InitOthers

SpecUpdate == InitUpdate /\ [][NextUpdate]_vars

\* ------------------------------------------------------------------------
\* The life of an assistant: its construction for a dex location, the queries,
\* MakeUpToDate, GetBestOatFile, GetStatusDump, Lock and its destruction
\* ------------------------------------------------------------------------
\* OatFileAssistant::GetBestOatFile
CallGetBestOatFile ==
  /\ ~aborted
  /\ \E f \in {GetBestOatFile(This)} :
     /\ Commit(f.t)
     /\ Returned(f.t, [op |-> "GetBestOatFile", info |-> f.info, r |-> f.r])
  /\ UNCHANGED world

\* OatFileAssistant::GetStatusDump
CallGetStatusDump ==
  /\ ~aborted
  /\ \E d \in {GetStatusDump(This)} :
     /\ Commit(d.t)
     /\ Returned(d.t, [op |-> "GetStatusDump", r |-> d.r])
  /\ UNCHANGED world

\* The fields of the assistant that Lock and the destructor leave alone
fields ==
  <<load_executable_, dex_parent_writable_, odex_, oat_,
    required_dex_checksums_attempted_, required_dex_checksums_found_,
    cached_required_dex_checksums_, has_original_dex_files_,
    image_info_load_attempted_, cached_image_info_>>

\* OatFileAssistant::Lock(error_msg): the lock file opens or does not
CallLock ==
  /\ ~aborted
  /\ HasFreshInode(lock_file)
  /\ \E open_ok \in BOOLEAN :
     \E k \in {Lock(flock_, lock_file, dex_location_, open_ok)} :
       /\ aborted' = k.aborted
       /\ flock_' = k.flock
       /\ lock_file' = k.lock_file
       /\ call' = IF k.aborted THEN [op |-> "Lock"] ELSE [op |-> "Lock", r |-> k.r]
  /\ UNCHANGED <<fields, dex_file, boot_image, disk, odex_dirs, peer, dex_location_,
                 procs, pool>>

\* The assistant is there: it was not destroyed
Alive == call.op # "~OatFileAssistant"

\* OatFileAssistant::~OatFileAssistant: the lock file is unlinked and unlocked,
\* the members are destroyed
Destroy ==
  /\ ~aborted
  /\ Alive
  /\ lock_file' = Destructor(flock_, lock_file, dex_location_)
  /\ flock_' = NoFile
  /\ call' = [op |-> "~OatFileAssistant", locked |-> flock_ # NoFile]
  /\ odex_' = NewOatFileInfo(FALSE)
  /\ oat_' = NewOatFileInfo(FALSE)
  /\ required_dex_checksums_attempted_' = FALSE
  /\ required_dex_checksums_found_' = FALSE
  /\ cached_required_dex_checksums_' = <<>>
  /\ has_original_dex_files_' = FALSE
  /\ image_info_load_attempted_' = FALSE
  /\ cached_image_info_' = NoFile
  /\ UNCHANGED <<load_executable_, dex_parent_writable_, aborted, dex_file, boot_image,
                 disk, odex_dirs, peer, dex_location_, procs, pool>>

\* /d/a.j, d/a.j and /d.x/a
LifeLocations == {d \in DexLocations : DexParent(Realpath(d, TRUE)) # <<>>}

LifeCandidates ==
  LET b == BaselineOat(<<1>>) IN
  {NoCandidate,
   Compiled(b),
   Compiled([b EXCEPT !.oat_data_begin = 2])}

\* An assistant constructed for one of the dex locations, with a file at the
\* location or none; there is a candidate at a filename that was determined,
\* at one of the two at most
WorldLife ==
  /\ \E dex_location \in LifeLocations, exists \in BOOLEAN, access_ok \in BOOLEAN :
     \E a \in {OatFileAssistant(dex_location, exists, kIsaString, TRUE, access_ok)} :
       /\ dex_location_ = a.dex_location_
       /\ load_executable_ = a.load_executable_
       /\ odex_ = a.odex_
       /\ oat_ = a.oat_
       /\ dex_parent_writable_ = a.dex_parent_writable_
  /\ required_dex_checksums_attempted_ = FALSE
  /\ required_dex_checksums_found_ = FALSE
  /\ cached_required_dex_checksums_ = <<>>
  /\ has_original_dex_files_ = FALSE
  /\ image_info_load_attempted_ = FALSE
  /\ cached_image_info_ = NoFile
  /\ aborted = FALSE
  /\ call = [op |-> "OatFileAssistant"]
  /\ disk \in {d \in [Locations -> LifeCandidates] :
                 /\ d["odex_"] = NoCandidate \/ d["oat_"] = NoCandidate
                 /\ \A l \in Locations :
                      ~(IF l = "odex_" THEN odex_ ELSE oat_).filename_provided_
                      => d[l] = NoCandidate}
  /\ dex_file = [readable |-> dex_location_ # <<>>, checksums |-> <<1>>]
  /\ boot_image = RuntimeImage
  /\ InitDirs
  /\ peer = NoPeer
  /\ flock_ = NoFile
  /\ procs = <<>>
  /\ pool = NoPool

\* There is no lock file
InitLife ==
  /\ WorldLife
  /\ lock_file = NoLockFile

NextLife ==
  \/ Alive /\ OdexFileStatus
  \/ Alive /\ OatFileStatus
  \/ Alive /\ CallGetDexOptNeeded
  \/ Alive /\ IsUpToDate
  \/ Alive /\ CallHasOriginalDexFiles
  \/ Alive /\ CallMakeUpToDate
  \/ Alive /\ CallGetBestOatFile
  \/ Alive /\ CallGetStatusDump
  \/ Alive /\ CallLock
  \/ Destroy

SpecLife == InitLife /\ [][NextLife]_vars

\* The assistant and the lock file: there is none, or there is one that no
\* process has locked
InitLock ==
  /\ WorldLife
  /\ lock_file \in {NoLockFile,
                    [path |-> LockFileName(dex_location_, kIsaString), ino |-> 1, held |-> {}]}

NextLock ==
  \/ Alive /\ OdexFileStatus
  \/ Alive /\ OatFileStatus
  \/ Alive /\ CallLock
  \/ Destroy

SpecLock == InitLock /\ [][NextLock]_vars

\* ------------------------------------------------------------------------
\* The oat file for the runtime: the status queries, MakeUpToDate and
\* GetBestOatFile on one candidate of every status, in an assistant that loads
\* executable or not
\* ------------------------------------------------------------------------
ReleaseCandidates ==
  LET b == BaselineOat(<<1>>) IN
  {NoCandidate,
   VdexOnly(<<1>>),
   Compiled(b),
   Compiled([b EXCEPT !.dex_checksums = <<2>>]),
   Compiled([b EXCEPT !.oat_data_begin = 2])}

\* One candidate at least is missing
WorldRelease ==
  /\ disk \in {d \in [Locations -> ReleaseCandidates] :
                 d["odex_"] = NoCandidate \/ d["oat_"] = NoCandidate}
  /\ dex_file \in {d \in DexFiles : d.checksums = <<1>>}
  /\ boot_image = RuntimeImage
  /\ dex_parent_writable_ = TRUE
  /\ load_executable_ \in BOOLEAN

InitRelease ==
  /\ InitAssistant
  /\ WorldRelease
  /\ InitDirs
  /\ peer = NoPeer
  /\ InitOthers

NextRelease ==
  \/ OdexFileStatus
  \/ OatFileStatus
  \/ CallMakeUpToDate
  \/ CallGetBestOatFile

SpecRelease == InitRelease /\ [][NextRelease]_vars

\* ------------------------------------------------------------------------
\* The names of the candidates: an assistant constructed for a dex location,
\* its two status queries, and the static DexLocationToOdexFilename on every
\* location of MaxPath characters at most
\* ------------------------------------------------------------------------
PathChars == {"/", ".", "a"}
Paths == UNION {[1..n -> PathChars] : n \in 0..MaxPath}

\* OatFileAssistant::DexLocationToOdexFilename(location, isa, &odex_filename,
\* &error_msg)
CallDexLocationToOdexFilename ==
  /\ \E location \in Paths :
     \E n \in {DexLocationToOdexFilename(location, kIsaString)} :
       call' = [op |-> "DexLocationToOdexFilename", location |-> location,
                r |-> n.ok, odex_filename |-> n.odex_filename, error_msg |-> n.error_msg]
  /\ UNCHANGED <<fields, aborted, world>>

ResolveCandidates == {Compiled(BaselineOat(<<1>>))}

\* An assistant constructed for one of the dex locations; there is a compiled
\* file at the place of the odex file and at the place of the oat file, whether
\* or not the assistant could determine their names
InitResolve ==
  /\ \E dex_location \in DexLocations, exists \in BOOLEAN :
     \E a \in {OatFileAssistant(dex_location, exists, kIsaString, TRUE, TRUE)} :
       /\ dex_location_ = a.dex_location_
       /\ load_executable_ = a.load_executable_
       /\ odex_ = a.odex_
       /\ oat_ = a.oat_
       /\ dex_parent_writable_ = a.dex_parent_writable_
       /\ dex_file = [checksums |-> <<1>>, readable |-> exists]
  /\ required_dex_checksums_attempted_ = FALSE
  /\ required_dex_checksums_found_ = FALSE
  /\ cached_required_dex_checksums_ = <<>>
  /\ has_original_dex_files_ = FALSE
  /\ image_info_load_attempted_ = FALSE
  /\ cached_image_info_ = NoFile
  /\ aborted = FALSE
  /\ call = [op |-> "OatFileAssistant"]
  /\ disk \in {[l \in Locations |-> c] : c \in ResolveCandidates}
  /\ boot_image = RuntimeImage
  /\ InitDirs
  /\ peer = NoPeer
  /\ flock_ = NoFile
  /\ lock_file = NoLockFile
  /\ procs = <<>>
  /\ pool = NoPool

NextResolve ==
  \/ OdexFileStatus
  \/ OatFileStatus
  \/ CallDexLocationToOdexFilename

SpecResolve == InitResolve /\ [][NextResolve]_vars

\* ------------------------------------------------------------------------
\* Processes that make the oat file of the dex location up to date, each with
\* an assistant of its own: Lock, MakeUpToDate, destruction, one call of the
\* system at a time.  The assistant of the variables only reads: it asks for
\* the status of the odex file and takes no lock.
\* ------------------------------------------------------------------------
NumProcs == 2        \* processes with an assistant for the dex location

Procs == 1..NumProcs

\* A process whose assistant was constructed: no lock file open, no candidate
\* selected
NewProc == [pc |-> "start", fd |-> 0, info |-> "none"]

\* The assistant of a process after its constructor, for the dex location of
\* the assistant of the variables
NewAssistant ==
  The({[load_executable_ |-> a.load_executable_,
        dex_parent_writable_ |-> a.dex_parent_writable_,
        odex_ |-> a.odex_,
        oat_ |-> a.oat_,
        required_dex_checksums_attempted_ |-> FALSE,
        required_dex_checksums_found_ |-> FALSE,
        cached_required_dex_checksums_ |-> <<>>,
        has_original_dex_files_ |-> FALSE,
        image_info_load_attempted_ |-> FALSE,
        cached_image_info_ |-> NoFile,
        aborted |-> FALSE] :
       a \in {OatFileAssistant(dex_location_, TRUE, kIsaString, TRUE, dex_parent_writable_)}})

\* What the steps of the processes leave alone
reader == <<fields, aborted, call, dex_file, boot_image, peer, dex_location_, flock_, pool>>

\* Lock, ScopedFlock::Init: open(lock_file_name, O_CREAT | O_RDWR).  When it
\* fails Lock unlinks the lock file and returns false.
ProcOpen(p) ==
  /\ procs[p].pc = "start"
  /\ HasFreshInode(lock_file)
  /\ \E open_ok \in BOOLEAN :
       IF ~open_ok
       THEN /\ lock_file' = Unlink(lock_file, LockFileName(dex_location_, kIsaString))
            /\ UNCHANGED procs
       ELSE \E o \in {OpenFileWithFlags(lock_file, LockFileName(dex_location_, kIsaString))} :
              /\ lock_file' = o
              /\ procs' = [procs EXCEPT ![p].pc = "opened", ![p].fd = o.ino]
  /\ UNCHANGED <<reader, disk, odex_dirs>>

\* ScopedFlock::Init: flock(fd, LOCK_EX) returns when no other process has the
\* file locked
ProcFlock(p) ==
  /\ procs[p].pc = "opened"
  /\ procs[p].fd \notin lock_file.held
  /\ lock_file' = [lock_file EXCEPT !.held = @ \cup {procs[p].fd}]
  /\ procs' = [procs EXCEPT ![p].pc = "flocked"]
  /\ UNCHANGED <<reader, disk, odex_dirs>>

\* ScopedFlock::Init: the file that was locked is compared with the file at the
\* name; when it is another one, or none, the file is closed and opened again
ProcStat(p) ==
  /\ procs[p].pc = "flocked"
  /\ IF /\ lock_file.path = LockFileName(dex_location_, kIsaString)
        /\ lock_file.ino = procs[p].fd
     THEN /\ procs' = [procs EXCEPT ![p].pc = "locked"]
          /\ UNCHANGED lock_file
     ELSE /\ procs' = [procs EXCEPT ![p].pc = "start", ![p].fd = 0]
          /\ lock_file' = [lock_file EXCEPT !.held = @ \ {procs[p].fd}]
  /\ UNCHANGED <<reader, disk, odex_dirs>>

\* MakeUpToDate to the decision, and GenerateOatFileNoChecks to the end of
\* PrepareOdexDirectories when an oat file is to be made
ProcDecide(p) ==
  /\ procs[p].pc = "locked"
  /\ \E b \in {GetBestInfo(NewAssistant)} :
     \E d \in {InfoGetDexOptNeeded(b.t, b.r, kDefaultCompilerFilterForDexLoading, FALSE)} :
       IF d.r = kNoDexOptNeeded
       THEN /\ procs' = [procs EXCEPT ![p].pc = "returned"]
            /\ UNCHANGED odex_dirs
       ELSE /\ procs' = [procs EXCEPT ![p].pc = "generating", ![p].info = b.r]
            /\ odex_dirs' = IF b.r = "odex_"
                            THEN PrepareOdexDirectories(d.t, odex_dirs, "none").dirs
                            ELSE odex_dirs
  /\ UNCHANGED <<reader, disk, lock_file>>

\* Variant: the file is made under another name, to be renamed when it is
\* complete; the files at the filename stay as they are
CreateEmptyFile_Elsewhere(files, which) == files

\* OS::CreateEmptyFile(name) at the filename of the candidate: the file is
\* there and it is empty
CreateEmptyFile(files, which) ==
  IF which = "vdex" THEN [files EXCEPT !.vdex = EmptyFile]
  ELSE [files EXCEPT !.oat = EmptyFile]

\* GenerateOatFileNoChecks: OS::CreateEmptyFile(vdex_file_name)
ProcCreateVdex(p) ==
  /\ procs[p].pc = "generating"
  /\ disk' = [disk EXCEPT ![procs[p].info] = CreateEmptyFile(@, "vdex")]
  /\ procs' = [procs EXCEPT ![p].pc = "vdex_created"]
  /\ UNCHANGED <<reader, lock_file, odex_dirs>>

\* GenerateOatFileNoChecks: OS::CreateEmptyFile(oat_file_name)
ProcCreateOat(p) ==
  /\ procs[p].pc = "vdex_created"
  /\ disk' = [disk EXCEPT ![procs[p].info] = CreateEmptyFile(@, "oat")]
  /\ procs' = [procs EXCEPT ![p].pc = "oat_created"]
  /\ UNCHANGED <<reader, lock_file, odex_dirs>>

\* GenerateOatFileNoChecks: Dex2Oat; when it fails both files are erased and
\* unlinked and kUpdateFailed is returned
ProcDex2Oat(p) ==
  /\ procs[p].pc = "oat_created"
  /\ \E x \in {Dex2Oat(fault) : fault \in {"none", "exec"}} :
       IF x.ok
       THEN /\ disk' = [disk EXCEPT ![procs[p].info] =
                          Compiled(Dex2OatOutput(kDefaultCompilerFilterForDexLoading))]
            /\ procs' = [procs EXCEPT ![p].pc = "compiled"]
       ELSE /\ disk' = [disk EXCEPT ![procs[p].info] = NoCandidate]
            /\ procs' = [procs EXCEPT ![p].pc = "returned"]
  /\ UNCHANGED <<reader, lock_file, odex_dirs>>

\* GenerateOatFileNoChecks: FlushCloseOrErase of both files, return
\* kUpdateSucceeded
ProcClose(p) ==
  /\ procs[p].pc = "compiled"
  /\ procs' = [procs EXCEPT ![p].pc = "returned"]
  /\ UNCHANGED <<reader, disk, lock_file, odex_dirs>>

\* ~OatFileAssistant of the process after MakeUpToDate has returned; the
\* process goes on with a new assistant
ProcDestroy(p) ==
  /\ procs[p].pc = "returned"
  /\ lock_file' = Destructor([ino |-> procs[p].fd,
                              path |-> LockFileName(dex_location_, kIsaString)],
                             lock_file, dex_location_)
  /\ procs' = [procs EXCEPT ![p] = NewProc]
  /\ UNCHANGED <<reader, disk, odex_dirs>>

ProcCandidates == {NoCandidate, VdexOnly(<<1>>), Compiled(BaselineOat(<<1>>))}

\* The assistant for /d/a.j, whose directory can be written, and the processes,
\* before any of them has locked; there may be an odex file
InitProcs ==
  /\ InitAssistant
  /\ disk \in {[odex_ |-> c, oat_ |-> NoCandidate] : c \in ProcCandidates}
  /\ dex_file = [readable |-> TRUE, checksums |-> <<1>>]
  /\ boot_image = RuntimeImage
  /\ dex_parent_writable_ = TRUE
  /\ load_executable_ = TRUE
  /\ InitDirs
  /\ peer = NoPeer
  /\ dex_location_ = kDexLocation
  /\ flock_ = NoFile
  /\ lock_file = NoLockFile
  /\ procs = [p \in Procs |-> NewProc]
  /\ pool = NoPool

NextProcs ==
  \/ OdexFileStatus
  \/ \E p \in Procs : ProcOpen(p)
  \/ \E p \in Procs : ProcFlock(p)
  \/ \E p \in Procs : ProcStat(p)
  \/ \E p \in Procs : ProcDecide(p)
  \/ \E p \in Procs : ProcCreateVdex(p)
  \/ \E p \in Procs : ProcCreateOat(p)
  \/ \E p \in Procs : ProcDex2Oat(p)
  \/ \E p \in Procs : ProcClose(p)
  \/ \E p \in Procs : ProcDestroy(p)

SpecProcs == InitProcs /\ [][NextProcs]_vars

\* ------------------------------------------------------------------------
\* The thread pool and the thread of a test that drives it: AddTask,
\* StartWorkers, StopWorkers and Wait in any order, with CountTasks and
\* TreeTasks.  A task is [id, depth]: a CountTask has depth 1, a TreeTask of
\* depth d > 1 adds two TreeTasks of depth d - 1 when it runs.
\* ------------------------------------------------------------------------
NumThreads == 2      \* ThreadPoolTest::num_threads: the workers of the pool
MaxTasks == 2        \* tasks the thread of the test adds
TreeDepth == 2       \* depth of the TreeTask the test adds

Workers == 1..NumThreads

NoTask == [id |-> 0, depth |-> 0]

\* ThreadPool::Create: the workers are about to call GetTask, nothing is
\* queued, the pool is not started; count and runs are the counter of the
\* test and how many times each task has run
NewPool ==
  [tasks_ |-> <<>>,
   started_ |-> FALSE,
   waiting_count_ |-> 0,
   workers |-> [w \in Workers |-> [pc |-> "get", task |-> NoTask]],
   main |-> [pc |-> "idle", task |-> NoTask],
   roots |-> <<>>,
   runs |-> <<>>,
   count |-> 0]

\* Variant: a task that is queued is outstanding whether or not the pool is
\* started
HasOutstandingTasks_IgnoreStarted(q) == q.tasks_ # <<>>

\* ThreadPool::HasOutstandingTasks
HasOutstandingTasks(q) == q.started_ /\ q.tasks_ # <<>>

\* task_queue_condition_.Signal: one of the workers that wait is woken, if any
Signal(q) ==
  IF \A w \in Workers : q.workers[w].pc # "waiting" THEN {q}
  ELSE {[q EXCEPT !.workers[w].pc = "woken"] :
        w \in {v \in Workers : q.workers[v].pc = "waiting"}}

\* task_queue_condition_.Broadcast: every worker that waits is woken
Broadcast(q) ==
  [q EXCEPT !.workers = [w \in Workers |->
                           IF q.workers[w].pc = "waiting"
                           THEN [q.workers[w] EXCEPT !.pc = "woken"]
                           ELSE q.workers[w]]]

\* completion_condition_.Broadcast: the thread that waits in Wait is woken
CompletionBroadcast(q) ==
  IF q.main.pc = "wait_blocked" THEN [q EXCEPT !.main.pc = "wait_check"] ELSE q

\* ThreadPool::AddTask
AddTask(q, depth) ==
  UNION {IF a.started_ /\ a.waiting_count_ # 0 THEN Signal(a) ELSE {a} :
         a \in {[q EXCEPT !.tasks_ = Append(@, [id |-> Len(q.runs) + 1, depth |-> depth]),
                          !.runs = Append(@, 0)]}}

\* ThreadPool::StartWorkers
StartWorkers(q) == Broadcast([q EXCEPT !.started_ = TRUE])

\* ThreadPool::StopWorkers
StopWorkers(q) == [q EXCEPT !.started_ = FALSE]

\* ThreadPool::TryGetTaskLocked
TryGetTaskLocked(q) ==
  IF HasOutstandingTasks(q)
  THEN [q |-> [q EXCEPT !.tasks_ = Tail(@)], r |-> Head(q.tasks_)]
  ELSE [q |-> q, r |-> NoTask]

\* ThreadPool::GetTask of worker w, one turn of its loop: a task, or the
\* worker waits for one; the last worker to wait with nothing outstanding
\* signals the completion
GetTask(q, w) ==
  The({IF t.r # NoTask
       THEN [t.q EXCEPT !.workers[w] = [pc |-> "running", task |-> t.r]]
       ELSE The({IF a.waiting_count_ = NumThreads /\ ~HasOutstandingTasks(a)
                 THEN CompletionBroadcast(a)
                 ELSE a :
                 a \in {[t.q EXCEPT !.waiting_count_ = @ + 1,
                                    !.workers[w].pc = "waiting"]}}) :
       t \in {TryGetTaskLocked(q)}})

\* ++*count_ of CountTask::Run and TreeTask::Run
Counted(q, task) == [q EXCEPT !.count = @ + 1, !.runs[task.id] = @ + 1]

\* Variant: a TreeTask adds one TreeTask
TaskRun_OneChild(q, task) ==
  IF task.depth > 1
  THEN {Counted(a, task) : a \in AddTask(q, task.depth - 1)}
  ELSE {Counted(q, task)}

\* CountTask::Run, and TreeTask::Run, which adds two tasks first
TaskRun(q, task) ==
  IF task.depth > 1
  THEN UNION {{Counted(b, task) : b \in AddTask(a, task.depth - 1)} :
              a \in AddTask(q, task.depth - 1)}
  ELSE {Counted(q, task)}

\* What the steps of the pool leave alone
assistant ==
  <<fields, aborted, dex_file, boot_image, disk, odex_dirs, peer, dex_location_,
    flock_, lock_file, procs>>

Idle == pool.main.pc = "idle"

\* thread_pool->AddTask(self, new CountTask(&count)), or new TreeTask(..,
\* depth) as the first task of the test
TestAddTask ==
  /\ Idle
  /\ Len(pool.roots) < MaxTasks
  /\ \E depth \in {1} \cup {d \in {TreeDepth} : pool.roots = <<>>} :
     \E q \in AddTask([pool EXCEPT !.roots = Append(@, depth)], depth) :
       /\ pool' = q
       /\ call' = [op |-> "AddTask", depth |-> depth]
  /\ UNCHANGED assistant

\* thread_pool->StartWorkers(self)
TestStartWorkers ==
  /\ Idle
  /\ pool' = StartWorkers(pool)
  /\ call' = [op |-> "StartWorkers"]
  /\ UNCHANGED assistant

\* thread_pool->StopWorkers(self)
TestStopWorkers ==
  /\ Idle
  /\ pool' = StopWorkers(pool)
  /\ call' = [op |-> "StopWorkers"]
  /\ UNCHANGED assistant

\* thread_pool->Wait(self, do_work, false) is called
TestWait ==
  /\ Idle
  /\ \E do_work \in BOOLEAN :
       /\ pool' = [pool EXCEPT !.main.pc = IF do_work THEN "wait_work" ELSE "wait_check"]
       /\ call' = [op |-> "Wait", do_work |-> do_work, returned |-> FALSE]
  /\ UNCHANGED assistant

\* Wait with do_work: TryGetTask, then the task is run by the thread of the
\* test, until there is none
WaitTryGetTask ==
  /\ pool.main.pc = "wait_work"
  /\ \E t \in {TryGetTaskLocked(pool)} :
       pool' = IF t.r # NoTask
               THEN [t.q EXCEPT !.main = [pc |-> "wait_run", task |-> t.r]]
               ELSE [t.q EXCEPT !.main.pc = "wait_check"]
  /\ UNCHANGED <<assistant, call>>

\* task->Run(self); task->Finalize() in Wait
WaitRun ==
  /\ pool.main.pc = "wait_run"
  /\ \E q \in TaskRun(pool, pool.main.task) :
       pool' = [q EXCEPT !.main = [pc |-> "wait_work", task |-> NoTask]]
  /\ UNCHANGED <<assistant, call>>

\* Wait: it returns when every worker waits and no task is outstanding, else
\* it waits for the completion
WaitCheck ==
  /\ pool.main.pc = "wait_check"
  /\ IF pool.waiting_count_ # NumThreads \/ HasOutstandingTasks(pool)
     THEN /\ pool' = [pool EXCEPT !.main.pc = "wait_blocked"]
          /\ UNCHANGED call
     ELSE /\ pool' = [pool EXCEPT !.main.pc = "idle"]
          /\ call' = [call EXCEPT !.returned = TRUE]
  /\ UNCHANGED assistant

\* ThreadPoolWorker::Run: GetTask, after --waiting_count_ when the worker was
\* woken
WorkerGetTask(w) ==
  /\ pool.workers[w].pc \in {"get", "woken"}
  /\ pool' = GetTask(IF pool.workers[w].pc = "woken"
                     THEN [pool EXCEPT !.waiting_count_ = @ - 1]
                     ELSE pool, w)
  /\ UNCHANGED <<assistant, call>>

\* ThreadPoolWorker::Run: task->Run(self); task->Finalize()
WorkerRun(w) ==
  /\ pool.workers[w].pc = "running"
  /\ \E q \in TaskRun(pool, pool.workers[w].task) :
       pool' = [q EXCEPT !.workers[w] = [pc |-> "get", task |-> NoTask]]
  /\ UNCHANGED <<assistant, call>>

\* A pool that was created, and an assistant that is not used
InitPool ==
  /\ InitAssistant
  /\ disk = [l \in Locations |-> NoCandidate]
  /\ dex_file = [readable |-> TRUE, checksums |-> <<1>>]
  /\ boot_image = RuntimeImage
  /\ dex_parent_writable_ = TRUE
  /\ load_executable_ = TRUE
  /\ InitDirs
  /\ peer = NoPeer
  /\ dex_location_ = kDexLocation
  /\ flock_ = NoFile
  /\ lock_file = NoLockFile
  /\ procs = <<>>
  /\ pool = NewPool

NextPool ==
  \/ TestAddTask
  \/ TestStartWorkers
  \/ TestStopWorkers
  \/ TestWait
  \/ WaitTryGetTask
  \/ WaitRun
  \/ WaitCheck
  \/ \E w \in Workers : WorkerGetTask(w)
  \/ \E w \in Workers : WorkerRun(w)

SpecPool == InitPool /\ [][NextPool]_vars

\* The workers and the thread of the test are threads that run: each goes on
\* when it can
FairPool ==
  /\ \A w \in Workers : WF_vars(WorkerGetTask(w)) /\ WF_vars(WorkerRun(w))
  /\ WF_vars(WaitTryGetTask)
  /\ WF_vars(WaitRun)
  /\ WF_vars(WaitCheck)

SpecPoolFair == SpecPool /\ FairPool

\* ------------------------------------------------------------------------
\* Two assistants: what GetBestInfo selects in one is kept in `peer` and
\* compared with what it selects later, in the same assistant or in the
\* assistant of another dex location
\* ------------------------------------------------------------------------
PairCandidates ==
  LET b == BaselineOat(<<1>>) IN
  {NoCandidate,
   Compiled(b),
   Compiled([b EXCEPT !.image_checksum = 2]),
   Compiled([b EXCEPT !.is_cc = ~kUseReadBarrier])}

WorldPair ==
  /\ disk \in [Locations -> PairCandidates]
  /\ dex_file \in {d \in DexFiles : d.checksums = <<1>>}
  /\ boot_image = RuntimeImage
  /\ dex_parent_writable_ \in BOOLEAN
  /\ load_executable_ = TRUE

\* The last call selected a candidate with GetBestInfo and returned
Selected == ~aborted /\ call.op \in {"GetDexOptNeeded", "IsUpToDate"}

\* ... and the status of both candidates is known
Observable == Selected /\ odex_.status_attempted_ /\ oat_.status_attempted_

\* What GetBestInfo read and what it selected
Observation ==
  [dex_parent_writable_ |-> dex_parent_writable_,
   odex_status |-> odex_.status_,
   oat_status |-> oat_.status_,
   has_original_dex_files |-> dex_file.readable,
   info |-> call.info]

\* The selection is noted, the assistant lives on
ObserveSelection ==
  /\ peer = NoPeer
  /\ Observable
  /\ peer' = Observation
  /\ UNCHANGED <<dex_file, boot_image, disk, odex_dirs, load_executable_,
                 dex_parent_writable_, odex_, oat_, required_dex_checksums_attempted_,
                 required_dex_checksums_found_, cached_required_dex_checksums_,
                 has_original_dex_files_, image_info_load_attempted_,
                 cached_image_info_, aborted, call, others>>

\* The selection is noted, the assistant is destroyed and the assistant of
\* another dex location is constructed
NextAssistant ==
  /\ peer = NoPeer
  /\ Observable
  /\ peer' = Observation
  /\ odex_' = NewOatFileInfo(TRUE)
  /\ oat_' = NewOatFileInfo(TRUE)
  /\ required_dex_checksums_attempted_' = FALSE
  /\ required_dex_checksums_found_' = FALSE
  /\ cached_required_dex_checksums_' = <<>>
  /\ has_original_dex_files_' = FALSE
  /\ image_info_load_attempted_' = FALSE
  /\ cached_image_info_' = NoFile
  /\ aborted' = FALSE
  /\ call' = [op |-> "OatFileAssistant"]
  /\ disk' \in [Locations -> PairCandidates]
  /\ dex_file' \in {d \in DexFiles : d.checksums = <<1>>}
  /\ boot_image' = RuntimeImage
  /\ dex_parent_writable_' \in BOOLEAN
  /\ load_executable_' = TRUE
  /\ odex_dirs' = IF disk'["odex_"] = NoCandidate THEN 0 ELSE 2
  /\ UNCHANGED others

NextPair ==
  \/ OdexFileStatus
  \/ OatFileStatus
  \/ IsUpToDate
  \/ ObserveSelection
  \/ NextAssistant

InitPair ==
  /\ InitAssistant
  /\ WorldPair
  /\ InitDirs
  /\ peer = NoPeer
  /\ InitOthers

SpecPair == InitPair /\ [][NextPair]_vars

\* ------------------------------------------------------------------------
\* Properties
\* ------------------------------------------------------------------------
Info(l) == IF l = "odex_" THEN odex_ ELSE oat_
InfoAfter(l) == IF l = "odex_" THEN odex_' ELSE oat_'

Usable == {kOatRelocationOutOfDate, kOatUpToDate}

\* The status of candidate l is cached and its file has not been handed out
Evaluated(l) == Info(l).status_attempted_ /\ ~Info(l).file_released_

\* ... and it was computed from the header of the opened oat file
Opened(l) == Evaluated(l) /\ Info(l).file_ # NoFile

\* The required checksums are there (read from the dex files or recovered)
RequiredKnown == required_dex_checksums_attempted_ /\ required_dex_checksums_found_

\* This step computes the status of candidate l
ComputesStatus(l) ==
  /\ ~Info(l).status_attempted_
  /\ InfoAfter(l).status_attempted_
  /\ ~InfoAfter(l).file_released_

\* The failure conditions of the four tests on the header f of an opened file
FailsReadBarrier(f) == f.is_cc # kUseReadBarrier
FailsChecksums(f) == RequiredKnown /\ f.vdex # cached_required_dex_checksums_
FailsImage(f) ==
  /\ DependsOnImageChecksum(f.filter)
  /\ IF boot_image = NoFile THEN has_original_dex_files_
     ELSE f.image_checksum # boot_image.oat_checksum
FailsRelocation(f) ==
  /\ IsAotCompilationEnabled(f.filter)
  /\ ~f.pic
  /\ \/ boot_image = NoFile
     \/ f.oat_data_begin # boot_image.oat_data_begin
     \/ f.patch_delta # boot_image.patch_delta

\* C1: when the dex checksum test is run on a candidate (an opened oat file
\* whose read barrier state is that of the runtime, or a vdex file alone) whose
\* list of checksums is as long as the required list, the status that is
\* computed is kOatDexOutOfDate if and only if the lists differ at some index.
C1_ChecksumGate ==
  [][\A l \in Locations :
       LET f == InfoAfter(l).file_
           v == VdexFileOpen(This, l)
           tested == IF f # NoFile THEN f.is_cc = kUseReadBarrier ELSE v # NoFile
           actual == IF f # NoFile THEN f.vdex ELSE v.checksums
           required == cached_required_dex_checksums_'
       IN (/\ ComputesStatus(l)
           /\ tested
           /\ required_dex_checksums_attempted_' /\ required_dex_checksums_found_'
           /\ Len(actual) = Len(required))
          => ((InfoAfter(l).status_ = kOatDexOutOfDate)
              <=> (\E i \in 1..Len(required) : actual[i] # required[i]))]_vars

\* C1 witness: two dex files, only the second checksum differs
C1_Witness ==
  /\ Opened("oat_")
  /\ RequiredKnown
  /\ cached_required_dex_checksums_ = <<1, 1>>
  /\ oat_.file_.vdex = <<1, 2>>
  /\ oat_.file_.is_cc = kUseReadBarrier
  /\ oat_.status_ = kOatDexOutOfDate

\* C2 as stated: a candidate whose number of dex files differs from that of the
\* dex location is never usable, whether the checksums of the dex location
\* were read, recovered from the odex file or not found.
C2_Original ==
  \A l \in Locations :
    (Opened(l) /\ Len(Info(l).file_.vdex) # Len(dex_file.checksums))
    => Info(l).status_ \notin Usable

\* C2 amended: when the required checksums are there (read from the dex files
\* or recovered from the odex file), a candidate whose number of dex files
\* differs from the number of required checksums is never usable.
C2_CountGate ==
  \A l \in Locations :
    (/\ Opened(l)
     /\ RequiredKnown
     /\ Len(Info(l).file_.vdex) # Len(cached_required_dex_checksums_))
    => Info(l).status_ \notin Usable

\* C2 witness: one dex file instead of two, with the checksum the first one
\* has, is out of date
C2_Witness ==
  /\ Opened("oat_")
  /\ RequiredKnown
  /\ cached_required_dex_checksums_ = <<1, 1>>
  /\ oat_.file_.vdex = <<1>>
  /\ oat_.file_.is_cc = kUseReadBarrier
  /\ oat_.status_ = kOatDexOutOfDate

\* C3: the status of an opened oat file is that of the first test that fails,
\* in the order read barrier state (kOatCannotOpen), dex checksums
\* (kOatDexOutOfDate), image checksum (kOatBootImageOutOfDate), relocation
\* (kOatRelocationOutOfDate), and kOatUpToDate when none fails.
C3_GateOrder ==
  \A l \in Locations :
    Opened(l) =>
      LET f == Info(l).file_ IN
      /\ ~FailsReadBarrier(f) => required_dex_checksums_attempted_
      /\ Info(l).status_ =
           IF FailsReadBarrier(f) THEN kOatCannotOpen
           ELSE IF FailsChecksums(f) THEN kOatDexOutOfDate
           ELSE IF FailsImage(f) THEN kOatBootImageOutOfDate
           ELSE IF FailsRelocation(f) THEN kOatRelocationOutOfDate
           ELSE kOatUpToDate

\* C3 witness: wrong read barrier state and wrong checksum is kOatCannotOpen
C3_Witness ==
  /\ Opened("oat_")
  /\ FailsReadBarrier(oat_.file_)
  /\ dex_file.readable
  /\ oat_.file_.vdex # dex_file.checksums
  /\ oat_.status_ = kOatCannotOpen

\* C4: for an opened oat file that passed the first two tests, whose filter
\* depends on the image checksum, when there is no image info: the status is
\* kOatBootImageOutOfDate if and only if the original dex files are there;
\* without them the relocation test decides.
C4_NoImageInfo ==
  \A l \in Locations :
    LET f == Info(l).file_ IN
    (/\ Opened(l)
     /\ ~FailsReadBarrier(f)
     /\ ~FailsChecksums(f)
     /\ DependsOnImageChecksum(f.filter)
     /\ boot_image = NoFile)
    => /\ has_original_dex_files_ <=> Info(l).status_ = kOatBootImageOutOfDate
       /\ ~has_original_dex_files_ => Info(l).status_ \in Usable

\* C4 witness: no image info, no original dex files: the oat file is accepted
C4_Witness ==
  /\ Opened("oat_")
  /\ ~FailsReadBarrier(oat_.file_)
  /\ DependsOnImageChecksum(oat_.file_.filter)
  /\ boot_image = NoFile
  /\ required_dex_checksums_attempted_
  /\ ~has_original_dex_files_
  /\ oat_.status_ \in Usable

\* C5: for an opened oat file that passed the first three tests, the status is
\* kOatRelocationOutOfDate exactly when the filter compiles ahead of time, the
\* file is not PIC and there is no image info or the data begin or the patch
\* delta differs from the image's; otherwise it is kOatUpToDate.
C5_RelocationGate ==
  \A l \in Locations :
    LET f == Info(l).file_ IN
    (/\ Opened(l)
     /\ ~FailsReadBarrier(f)
     /\ ~FailsChecksums(f)
     /\ ~FailsImage(f))
    => /\ Info(l).status_ \in Usable
       /\ Info(l).status_ = kOatRelocationOutOfDate <=> FailsRelocation(f)
       /\ (f.pic \/ ~IsAotCompilationEnabled(f.filter)) => Info(l).status_ = kOatUpToDate

\* C5 witness: only the patch delta differs
C5_Witness ==
  /\ Opened("oat_")
  /\ ~FailsReadBarrier(oat_.file_)
  /\ ~FailsChecksums(oat_.file_)
  /\ ~FailsImage(oat_.file_)
  /\ boot_image # NoFile
  /\ oat_.file_.oat_data_begin = boot_image.oat_data_begin
  /\ oat_.file_.patch_delta # boot_image.patch_delta
  /\ oat_.status_ = kOatRelocationOutOfDate

\* C6: when the oat file of a candidate cannot be opened, the status that is
\* computed comes from the vdex file alone: kOatCannotOpen if it cannot be
\* opened either, kOatBootImageOutOfDate if its checksums are the required
\* ones, kOatDexOutOfDate if they are not; it is never usable.
C6_VdexOnly ==
  [][\A l \in Locations :
       LET v == VdexFileOpen(This, l)
           status == InfoAfter(l).status_
           known == required_dex_checksums_attempted_' /\ required_dex_checksums_found_'
       IN (ComputesStatus(l) /\ InfoAfter(l).file_ = NoFile)
          => /\ status \notin Usable
             /\ v = NoFile => status = kOatCannotOpen
             /\ v # NoFile => status \in {kOatBootImageOutOfDate, kOatDexOutOfDate}
             /\ (v # NoFile /\ known /\ v.checksums = cached_required_dex_checksums_')
                => status = kOatBootImageOutOfDate
             /\ (v # NoFile /\ known /\ v.checksums # cached_required_dex_checksums_')
                => status = kOatDexOutOfDate]_vars

\* C6 witness: a vdex file alone, with the required checksums
C6_Witness ==
  /\ Evaluated("oat_")
  /\ oat_.file_ = NoFile
  /\ disk["oat_"].vdex # NoFile
  /\ RequiredKnown
  /\ disk["oat_"].vdex.checksums = cached_required_dex_checksums_
  /\ oat_.status_ = kOatBootImageOutOfDate

\* The last call was GetDexOptNeeded and it returned
Decided == ~aborted /\ call.op = "GetDexOptNeeded"

\* The filter of the opened oat file f is okay for the target of the last call
FilterOkay(f) ==
  /\ f # NoFile
  /\ IsAsGoodAs(f.filter, call.target)
  /\ ~(call.profile_changed /\ DependsOnProfile(f.filter))

\* C7: OatFileInfo::GetDexOptNeeded is kNoDexOptNeeded when the status of the
\* candidate is kOatUpToDate and its filter is okay for the target.
C7_UpToDateNoDexOpt ==
  Decided =>
    LET i == Info(call.info) IN
    (i.status_ = kOatUpToDate /\ FilterOkay(i.file_))
    => call.dexopt_needed = kNoDexOptNeeded

\* C7 witness: one dex file with the required checksum, filter speed, image
\* checksum and data begin of the image, target speed, profile unchanged
C7_Witness ==
  /\ Decided
  /\ call.target = kSpeed
  /\ ~call.profile_changed
  /\ Info(call.info).file_ # NoFile
  /\ Info(call.info).file_.filter = kSpeed
  /\ Info(call.info).file_.vdex = <<1>>
  /\ RequiredKnown /\ cached_required_dex_checksums_ = <<1>>
  /\ ~Info(call.info).file_.pic
  /\ Info(call.info).status_ = kOatUpToDate
  /\ call.dexopt_needed = kNoDexOptNeeded

\* C8: for a candidate with status kOatRelocationOutOfDate whose filter is okay
\* for the target, OatFileInfo::GetDexOptNeeded is kNoDexOptNeeded when the
\* target filter does not compile ahead of time and kDex2OatForRelocation when
\* it does.
C8_Relocation ==
  Decided =>
    LET i == Info(call.info) IN
    (i.status_ = kOatRelocationOutOfDate /\ FilterOkay(i.file_))
    => call.dexopt_needed =
         IF IsAotCompilationEnabled(call.target)
         THEN kDex2OatForRelocation ELSE kNoDexOptNeeded

\* C8 witness: the target does not compile, nothing is needed
C8_Witness ==
  /\ Decided
  /\ Info(call.info).status_ = kOatRelocationOutOfDate
  /\ FilterOkay(Info(call.info).file_)
  /\ ~IsAotCompilationEnabled(call.target)
  /\ call.dexopt_needed = kNoDexOptNeeded

\* C9: for a candidate whose status is usable and whose filter is not okay for
\* the target, OatFileInfo::GetDexOptNeeded is kDex2OatForFilter, with or
\* without the original dex files.
C9_ForFilter ==
  Decided =>
    LET i == Info(call.info) IN
    (i.status_ \in Usable /\ ~FilterOkay(i.file_))
    => call.dexopt_needed = kDex2OatForFilter

\* C9 witness: needs relocation, the profile changed under a profile filter,
\* and the original dex files are gone
C9_Witness ==
  /\ Decided
  /\ Info(call.info).status_ = kOatRelocationOutOfDate
  /\ IsAsGoodAs(Info(call.info).file_.filter, call.target)
  /\ call.profile_changed
  /\ required_dex_checksums_attempted_ /\ ~has_original_dex_files_
  /\ call.dexopt_needed = kDex2OatForFilter

\* C10: for a candidate with status kOatBootImageOutOfDate,
\* OatFileInfo::GetDexOptNeeded is kDex2OatForBootImage for every target and
\* every profile_changed.
C10_ForBootImage ==
  Decided =>
    (Info(call.info).status_ = kOatBootImageOutOfDate
     => call.dexopt_needed = kDex2OatForBootImage)

\* C10 witness: a vdex file alone, the original dex files are gone, the target
\* is the lowest filter
C10_Witness ==
  /\ Decided
  /\ Info(call.info).file_ = NoFile
  /\ Info(call.info).status_ = kOatBootImageOutOfDate
  /\ required_dex_checksums_attempted_ /\ ~has_original_dex_files_
  /\ call.target = kVerify
  /\ call.dexopt_needed = kDex2OatForBootImage
\* C11: for a candidate with status kOatCannotOpen or kOatDexOutOfDate,
\* OatFileInfo::GetDexOptNeeded is kDex2OatFromScratch when the original dex
\* files can be read and kNoDexOptNeeded when they cannot, also when the
\* required checksums were recovered from the odex file.
C11_FromScratch ==
  Decided =>
    (Info(call.info).status_ \in {kOatCannotOpen, kOatDexOutOfDate}
     => call.dexopt_needed =
          IF dex_file.readable THEN kDex2OatFromScratch ELSE kNoDexOptNeeded)

\* C11 witness: the dex files cannot be read, the required checksums come from
\* the odex file, the selected candidate cannot be used and nothing is needed
C11_Witness ==
  /\ Decided
  /\ ~dex_file.readable
  /\ RequiredKnown
  /\ Info(call.info).status_ \in {kOatCannotOpen, kOatDexOutOfDate}
  /\ call.dexopt_needed = kNoDexOptNeeded

\* C12: the filter_okay that OatFileInfo::GetDexOptNeeded gets from
\* CompilerFilterIsOkay(target, profile_changed) is true exactly when the
\* candidate has an opened oat file whose filter is as good as the target and
\* not (profile_changed and that filter depends on the profile).
C12_FilterOkay ==
  Decided =>
    LET f == Info(call.info).file_ IN
    call.filter_okay =
      (/\ f # NoFile
       /\ IsAsGoodAs(f.filter, call.target)
       /\ ~(call.profile_changed /\ DependsOnProfile(f.filter)))

\* C12 witness: the filter is as good as the target, but it depends on the
\* profile and the profile changed
C12_Witness ==
  /\ Decided
  /\ Info(call.info).file_ # NoFile
  /\ IsAsGoodAs(Info(call.info).file_.filter, call.target)
  /\ DependsOnProfile(Info(call.info).file_.filter)
  /\ call.profile_changed
  /\ ~call.filter_okay

\* C13: when the directory of the dex file is writable GetBestInfo selects the
\* odex location, whatever the two statuses and with or without the original
\* dex files.
C13_WritablePrefersOdex ==
  Selected => (dex_parent_writable_ => call.info = "odex_")

\* C13 witness: the odex file cannot be opened, the oat file is up to date, and
\* the odex location is selected
C13_Witness ==
  /\ Selected
  /\ dex_parent_writable_
  /\ Evaluated("odex_") /\ odex_.status_ = kOatCannotOpen
  /\ Evaluated("oat_") /\ oat_.status_ = kOatUpToDate
  /\ call.info = "odex_"

\* C14: when the directory of the dex file is not writable GetBestInfo selects
\* the oat location if its status is usable, else the odex location if its
\* status is kOatUpToDate, else the oat location if the original dex files can
\* be read, else the odex location if its status is not kOatCannotOpen, else
\* the oat location.
C14_NotWritableOrder ==
  Selected =>
    (~dex_parent_writable_
     => call.info =
          IF oat_.status_ \in Usable THEN "oat_"
          ELSE IF odex_.status_ = kOatUpToDate THEN "odex_"
          ELSE IF dex_file.readable THEN "oat_"
          ELSE IF odex_.status_ # kOatCannotOpen THEN "odex_"
          ELSE "oat_")

\* C14 witness: the odex file only needs relocation, the oat file cannot be
\* used, the dex files can be read: the oat location is selected
C14_Witness ==
  /\ Selected
  /\ ~dex_parent_writable_
  /\ Evaluated("odex_") /\ odex_.status_ = kOatRelocationOutOfDate
  /\ Evaluated("oat_") /\ oat_.status_ \notin Usable
  /\ dex_file.readable
  /\ call.info = "oat_"
\* What GetBestInfo reads agrees with what it read in the observed assistant
SameStatuses ==
  /\ dex_parent_writable_ = peer.dex_parent_writable_
  /\ odex_.status_ = peer.odex_status
  /\ oat_.status_ = peer.oat_status

\* C15 as stated: two selections that agree on the writability of the directory
\* and on both statuses select the same candidate.
C15_Original ==
  (peer # NoPeer /\ Observable) => (SameStatuses => call.info = peer.info)

\* C15: two selections, in one assistant or in two, that agree on the
\* writability of the directory, on both statuses and on whether the original
\* dex files can be read select the same candidate.
C15_Determinism ==
  (peer # NoPeer /\ Observable) =>
    ((SameStatuses /\ dex_file.readable = peer.has_original_dex_files)
     => call.info = peer.info)

\* C15 witness: two selections that agree, with the directory not writable, no
\* usable oat file and an odex file that is out of date with the boot image
C15_Witness ==
  /\ peer # NoPeer
  /\ Observable
  /\ SameStatuses
  /\ dex_file.readable = peer.has_original_dex_files
  /\ ~dex_parent_writable_
  /\ oat_.status_ = kOatCannotOpen
  /\ odex_.status_ = kOatBootImageOutOfDate
  /\ call.info = peer.info
\* The last call was MakeUpToDate, it returned and it had selected a candidate
Updated == ~aborted /\ call.op = "MakeUpToDate" /\ call.info \in Locations

\* The step is a call of MakeUpToDate that returns and that had selected a
\* candidate whose status was kOatUpToDate
UpdatesUpToDate ==
  /\ ~aborted'
  /\ call'.op = "MakeUpToDate"
  /\ call'.info \in Locations
  /\ call'.decided[call'.info].status_ = kOatUpToDate

\* No file and no directory is written, dex2oat is not called, and the call
\* succeeds
WritesNothing ==
  /\ disk' = disk
  /\ odex_dirs' = odex_dirs
  /\ call'.writes = <<>>
  /\ call'.dex2oat = "not called"
  /\ call'.r = kUpdateSucceeded

\* The other candidate
Other(l) == IF l = "odex_" THEN "oat_" ELSE "odex_"

\* MakeUpToDate returned kUpdateSucceeded after it generated the oat file
Regenerated == Updated /\ call.r = kUpdateSucceeded /\ call.dex2oat = "true"

\* C16 as stated: a call of MakeUpToDate that selects a candidate whose status
\* is kOatUpToDate writes nothing and returns kUpdateSucceeded.
C16_Original == [][UpdatesUpToDate => WritesNothing]_vars

\* C16: a call of MakeUpToDate that selects a candidate whose status is
\* kOatUpToDate and whose filter is okay for the filter of the runtime (as good
\* as it, and not depending on a profile that changed) writes no file and no
\* directory, does not call dex2oat and returns kUpdateSucceeded.
C16_NoWrites ==
  [][(/\ UpdatesUpToDate
      /\ LET f == call'.decided[call'.info].file_ IN
         /\ IsAsGoodAs(f.filter, call'.target)
         /\ ~(call'.profile_changed /\ DependsOnProfile(f.filter)))
     => WritesNothing]_vars

\* C16 witness: the selected candidate was up to date with filter speed, the
\* runtime asks for speed, nothing was written
C16_Witness ==
  /\ Updated
  /\ call.decided[call.info].status_ = kOatUpToDate
  /\ call.decided[call.info].file_.filter = kSpeed
  /\ call.target = kSpeed
  /\ call.writes = <<>>
  /\ call.r = kUpdateSucceeded
  /\ disk[call.info] = Compiled(BaselineOat(<<1>>))

\* C17: after a call of MakeUpToDate that created the vdex file and did not
\* return kUpdateSucceeded, there is neither an oat file nor a vdex file at the
\* filename of the candidate.
C17_NoOutputsAfterFailure ==
  (/\ Updated
   /\ call.r # kUpdateSucceeded
   /\ \E i \in 1..Len(call.writes) : call.writes[i] = "create vdex")
  => disk[call.info] = NoCandidate

\* C18: when Dex2Oat returns false (no image location, dex2oat not started, or
\* dex2oat exits with an error) there is neither an oat file nor a vdex file at
\* the filename of the candidate and MakeUpToDate returns kUpdateFailed.
C18_CompilerFailure ==
  (Updated /\ call.dex2oat = "false")
  => (disk[call.info] = NoCandidate /\ call.r = kUpdateFailed)

\* C18 witness: dex2oat was started for a candidate that was there before, it
\* failed, and both files are gone
C18_Witness ==
  /\ Updated
  /\ call.dex2oat = "false"
  /\ \E i \in 1..Len(call.writes) : call.writes[i] = "dex2oat"
  /\ call.decided[call.info].file_ # NoFile
  /\ disk[call.info] = NoCandidate
  /\ call.r = kUpdateFailed

C20_ResetAfterUpdate ==
  Regenerated =>
    /\ ~Info(call.info).load_attempted_
    /\ ~Info(call.info).status_attempted_
    /\ Info(call.info).file_ = NoFile
    /\ Info(Other(call.info)) = call.decided[Other(call.info)]

\* C20 witness: the candidate had an opened file and a status, the other
\* candidate has a cached status, and the oat file was generated
C20_Witness ==
  /\ Regenerated
  /\ call.decided[call.info].file_ # NoFile
  /\ call.decided[call.info].status_attempted_
  /\ Info(Other(call.info)).status_attempted_
  /\ ~Info(call.info).status_attempted_

\* The OatFileAssistant method that returns the status of candidate l
StatusCall(l) == IF l = "odex_" THEN "OdexFileStatus" ELSE "OatFileStatus"

\* MakeUpToDate created the vdex file of the selected candidate and did not
\* return kUpdateSucceeded
FailedUpdate ==
  /\ Updated
  /\ call.r # kUpdateSucceeded
  /\ \E i \in 1..Len(call.writes) : call.writes[i] = "create vdex"

\* C21: after a generation that failed, the next status query on the candidate
\* returns the status of what is at its filename (as a query computes it once
\* load_attempted_ and status_attempted_ are cleared), never the status that
\* was cached before the generation.
C21_FreshAfterFailure ==
  [][(FailedUpdate /\ ~aborted' /\ call'.op = StatusCall(call.info))
     => call'.r = Status(Reset(This, call.info), call.info).r]_vars

\* The step is made by an assistant that lives on
StepOfAssistant == call'.op # "~OatFileAssistant"

SomeReleased == \E l \in Locations : Info(l).file_released_

GenerationFailed ==
  /\ call'.dexopt_needed \in {kDex2OatFromScratch, kDex2OatForBootImage,
                              kDex2OatForFilter, kDex2OatForRelocation}
  /\ \/ disk'[call'.info] # Compiled(Dex2OatOutput(call'.target))
     \/ call'.dex2oat # "true"

FlockName == dex_location_ \o <<".", "a", "r", "m", ".", "f", "l", "o", "c", "k">>

GenerationStarted ==
  /\ call'.op = "MakeUpToDate"
  /\ ~aborted'
  /\ call'.info \in Locations
  /\ call'.dexopt_needed # kNoDexOptNeeded

PreconditionFails ==
  \/ call'.fault = "dex2oat_disabled"
  \/ ~call'.decided[call'.info].filename_provided_
  \/ call'.fault = "stat"

C30_Preconditions ==
  [][(GenerationStarted /\ PreconditionFails) =>
       /\ call'.r = kUpdateNotAttempted
       /\ call'.writes = <<>>
       /\ call'.dex2oat = "not called"
       /\ disk' = disk
       /\ odex_dirs' = odex_dirs
       /\ odex_' = call'.decided.odex_
       /\ oat_' = call'.decided.oat_
       /\ required_dex_checksums_attempted_' = call'.decided.required_dex_checksums_attempted_
       /\ required_dex_checksums_found_' = call'.decided.required_dex_checksums_found_
       /\ cached_required_dex_checksums_' = call'.decided.cached_required_dex_checksums_
       /\ has_original_dex_files_' = call'.decided.has_original_dex_files_
       /\ image_info_load_attempted_' = call'.decided.image_info_load_attempted_
       /\ cached_image_info_' = call'.decided.cached_image_info_]_vars

\* Witness: a generation for the odex file, whose filename could not be
\* determined, was not attempted although no call of the system failed
C30_Witness ==
  /\ call.op = "MakeUpToDate"
  /\ ~aborted
  /\ call.info = "odex_"
  /\ call.dexopt_needed # kNoDexOptNeeded
  /\ ~odex_.filename_provided_
  /\ call.fault = "none"
  /\ call.r = kUpdateNotAttempted

\* ------------------------------------------------------------------------
\* C27: the odex file of a dex location is <directory>/oat/<isa>/<base>.odex:
\* "oat/<isa>/" comes after the last '/' of the location and ".odex" takes the
\* place of what follows the last '.' of the file name.  There is no odex
\* filename, and there is an error message, exactly when the location has no
\* '/' or its file name has no '.'.  A candidate of an assistant whose filename
\* could not be determined has no filename and its status is kOatCannotOpen.
Slashes(location) == {i \in 1..Len(location) : location[i] = "/"}
LastSlash(location) ==
  CHOOSE i \in Slashes(location) : \A j \in Slashes(location) : j <= i
FileDots(location) ==
  {i \in 1..Len(location) : location[i] = "." /\ i > LastSlash(location)}
LastFileDot(location) ==
  CHOOSE i \in FileDots(location) : \A j \in FileDots(location) : j <= i
Resolvable(location) ==
  Slashes(location) # {} /\ FileDots(location) # {}

C27_OdexFilename ==
  [][/\ call'.op = "DexLocationToOdexFilename" =>
          /\ call'.r <=> Resolvable(call'.location)
          /\ call'.r =>
               /\ call'.odex_filename =
                    SubSeq(call'.location, 1, LastSlash(call'.location))
                      \o <<"o", "a", "t", "/", "a", "r", "m", "/">>
                      \o SubSeq(call'.location, LastSlash(call'.location) + 1,
                                LastFileDot(call'.location) - 1)
                      \o <<".", "o", "d", "e", "x">>
               /\ call'.error_msg = ""
          /\ ~call'.r =>
               /\ call'.odex_filename = <<>>
               /\ call'.error_msg # ""
     /\ ~Resolvable(dex_location_) => ~odex_.filename_provided_
     /\ (call'.op = "OdexFileStatus" /\ ~Resolvable(dex_location_)) =>
          call'.r = kOatCannotOpen
     /\ (call'.op = "OatFileStatus" /\ ~oat_.filename_provided_) =>
          call'.r = kOatCannotOpen]_vars

\* Witness: the odex filename of a location with two '/' and a '.' in its file
\* name was determined, for an assistant whose own odex filename could not be
\* and that has a compiled file at the place of the odex file
C27_Witness ==
  /\ call.op = "DexLocationToOdexFilename"
  /\ call.r
  /\ Cardinality(Slashes(call.location)) = 2
  /\ dex_location_ # <<>>
  /\ ~Resolvable(dex_location_)
  /\ odex_.status_attempted_
  /\ odex_.status_ = kOatCannotOpen
  /\ disk["odex_"] # NoCandidate

\* ------------------------------------------------------------------------
\* C25: of the processes that have locked before MakeUpToDate and keep their
\* assistant until it has returned, one at most is between the creation of
\* the output files and the return of GenerateOatFileNoChecks.
InPipeline(p) == procs[p].pc \in {"vdex_created", "oat_created", "compiled"}

C25_OneGeneration ==
  \A p \in DOMAIN procs, q \in DOMAIN procs :
    (InPipeline(p) /\ InPipeline(q)) => p = q

\* ------------------------------------------------------------------------
\* C26: a status query takes no lock and the generation writes at the filename
\* of the candidate.  A process that has the lock creates the vdex file and
\* the oat file empty at that filename before dex2oat fills them, and a status
\* query that the assistant of another process makes while the vdex file is
\* empty and the process with the lock is between the creation and dex2oat
\* is not held back: it reads the unfinished candidate and returns
\* kOatCannotOpen.
HasLocked(p) ==
  /\ procs[p].fd # 0
  /\ procs[p].fd \in lock_file.held
  /\ procs[p].pc \notin {"start", "opened", "flocked"}

Creating(p) ==
  /\ HasLocked(p)
  /\ procs[p].pc \in {"vdex_created", "oat_created"}
  /\ procs[p].info = "odex_"

ReadsOdexStatus == ~odex_.status_attempted_ /\ odex_'.status_attempted_

C26_UnlockedRead ==
  [][/\ \A p \in DOMAIN procs :
          /\ (procs[p].pc = "generating" /\ procs'[p].pc = "vdex_created") =>
               /\ HasLocked(p)
               /\ disk'[procs[p].info].vdex = EmptyFile
          /\ (procs[p].pc = "vdex_created" /\ procs'[p].pc = "oat_created") =>
               /\ HasLocked(p)
               /\ disk'[procs[p].info].oat = EmptyFile
     /\ (ReadsOdexStatus /\ disk["odex_"].vdex = EmptyFile
           /\ \E p \in DOMAIN procs : Creating(p)) =>
          /\ call'.op = "OdexFileStatus"
          /\ call'.r = kOatCannotOpen
          /\ odex_'.status_ = kOatCannotOpen
          /\ UNCHANGED <<procs, lock_file, disk>>]_vars

\* Witness: the only process that has opened the lock file has locked it and
\* has created the vdex file over the one that was there (the directories
\* were); the assistant has asked for the status of the odex file and got
\* kOatCannotOpen
C26_Witness ==
  /\ call.op = "OdexFileStatus"
  /\ call.r = kOatCannotOpen
  /\ odex_.status_attempted_
  /\ disk["odex_"].vdex = EmptyFile
  /\ \E p \in DOMAIN procs :
       /\ Creating(p)
       /\ lock_file.ino = procs[p].fd
       /\ \A q \in DOMAIN procs \ {p} : procs[q] = NewProc

\* ------------------------------------------------------------------------
\* C28: when Wait returns from a pool that is started, every task that was
\* added, by the thread of the test or by a task that ran, has run exactly
\* once and none is queued: the counter is the number of the tasks, 1 for each
\* CountTask and 2^d - 1 for each TreeTask of depth d that the test added.  No
\* task runs twice at any time.
RECURSIVE TasksOf(_, _)
TasksOf(roots, i) ==
  IF i > Len(roots) THEN 0 ELSE (2 ^ roots[i] - 1) + TasksOf(roots, i + 1)

WaitReturned == call.op = "Wait" /\ call.returned /\ Idle

C28_EveryTaskOnce ==
  /\ \A i \in 1..Len(pool.runs) : pool.runs[i] <= 1
  /\ (WaitReturned /\ pool.started_) =>
       /\ pool.tasks_ = <<>>
       /\ \A i \in 1..Len(pool.runs) : pool.runs[i] = 1
       /\ Len(pool.runs) = TasksOf(pool.roots, 1)
       /\ pool.count = TasksOf(pool.roots, 1)

\* Witness: Wait has returned after the test added a TreeTask before
\* StartWorkers and the tasks of the tree have run
C28_Witness ==
  /\ WaitReturned
  /\ pool.started_
  /\ pool.roots = <<TreeDepth>>
  /\ pool.count = 2 ^ TreeDepth - 1

\* ------------------------------------------------------------------------
\* C29: no task is taken from the queue while the pool is not started,
\* before the first StartWorkers or after StopWorkers, and while the pool is
\* not started and no thread has a task no task runs; a Wait that is called
\* while the pool is not started and tasks are queued returns, with the tasks
\* still queued.
HoldsTask ==
  \/ pool.main.task # NoTask
  \/ \E w \in Workers : pool.workers[w].task # NoTask

InWait == pool.main.pc \in {"wait_work", "wait_run", "wait_check", "wait_blocked"}

C29_StoppedPool ==
  /\ [][/\ (pool'.main.task \notin {NoTask, pool.main.task}
            \/ \E w \in Workers : pool'.workers[w].task \notin {NoTask, pool.workers[w].task})
           => (pool.started_ /\ Len(pool'.tasks_) = Len(pool.tasks_) - 1)
        /\ (~pool.started_ /\ ~HoldsTask) =>
             /\ pool'.count = pool.count
             /\ \A i \in 1..Len(pool.runs) : pool'.runs[i] = pool.runs[i]
             /\ Len(pool'.tasks_) >= Len(pool.tasks_)]_vars
  /\ (InWait /\ ~pool.started_ /\ pool.tasks_ # <<>>)
       ~> (WaitReturned /\ ~pool.started_ /\ pool.tasks_ # <<>>)

\* Witness: Wait has returned from a pool that was stopped after some of the
\* tasks had run, and a task is still queued
C29_Witness ==
  /\ WaitReturned
  /\ ~pool.started_
  /\ pool.tasks_ # <<>>
  /\ pool.count > 0

\* ------------------------------------------------------------------------
\* C31: the order of a generation.  The directories oat/ and oat/<isa>/ are
\* made for the odex location only, and before the vdex file is created; the
\* vdex file is created before the oat file; dex2oat runs after both were
\* created.  When a directory cannot be prepared (its stat fails or finds what
\* is not a directory, mkdir or chmod fails) the result is kUpdateNotAttempted
\* and no file is created.  A directory that exists is neither made nor
\* chmod'ed.
Pos(w, x) == {i \in 1..Len(w) : w[i] = x}
Before(w, x, y) == \A j \in Pos(w, y) : \E i \in Pos(w, x) : i < j

DirectoryFails ==
  /\ call'.info = "odex_"
  /\ \/ call'.fault = "stat_dir"
     \/ call'.fault \in {"mkdir", "chmod_dir"} /\ odex_dirs < 2
     \/ ~dex_parent_writable_ /\ odex_dirs = 0

Dex2OatWorks == boot_image # NoFile /\ dex_file.readable

C31_PipelineOrder ==
  [][(call'.op = "MakeUpToDate" /\ ~aborted' /\ call'.info \in Locations
        /\ call'.dexopt_needed # kNoDexOptNeeded
        /\ call'.fault \notin {"dex2oat_disabled", "stat"}) =>
       /\ call'.info = "oat_" =>
            /\ Pos(call'.writes, "mkdir") = {}
            /\ Pos(call'.writes, "chmod") = {}
            /\ odex_dirs' = odex_dirs
            /\ (call'.fault \in {"none", "stat_dir", "mkdir", "chmod_dir"} /\ Dex2OatWorks)
                 => call'.r = kUpdateSucceeded
       /\ \A i \in Pos(call'.writes, "mkdir") \cup Pos(call'.writes, "chmod") :
            \A j \in Pos(call'.writes, "create vdex") \cup Pos(call'.writes, "create oat") :
              i < j
       /\ Before(call'.writes, "create vdex", "create oat")
       /\ Before(call'.writes, "create vdex", "dex2oat")
       /\ Before(call'.writes, "create oat", "dex2oat")
       /\ call'.dex2oat # "not called" =>
            (Pos(call'.writes, "create vdex") # {} /\ Pos(call'.writes, "create oat") # {})
       /\ call'.info = "odex_" =>
            /\ Cardinality(Pos(call'.writes, "mkdir")) <= 2 - odex_dirs
            /\ Cardinality(Pos(call'.writes, "chmod")) <= 2 - odex_dirs
       /\ DirectoryFails =>
            /\ call'.r = kUpdateNotAttempted
            /\ Pos(call'.writes, "create vdex") = {}
            /\ Pos(call'.writes, "create oat") = {}
            /\ call'.dex2oat = "not called"
            /\ disk' = disk]_vars

\* Witness: oat/ was there, left by a generation whose chmod of it failed;
\* oat/<isa>/ was made, then the vdex file and the oat file were created and
\* dex2oat ran
C31_Witness ==
  /\ call.op = "MakeUpToDate"
  /\ ~aborted
  /\ call.info = "odex_"
  /\ call.writes = <<"mkdir", "chmod", "create vdex", "fchmod vdex", "create oat",
                     "fchmod oat", "dex2oat", "close vdex", "close oat">>
  /\ call.r = kUpdateSucceeded
  /\ odex_dirs = 2

\* ------------------------------------------------------------------------
\* C32
\* ------------------------------------------------------------------------
\* Candidate l is reset by the step: by a generation that succeeded on it or
\* by the reload of ReleaseFileForUse
C32_ResetBy(l) ==
  \/ /\ call'.op = "MakeUpToDate"
     /\ ~aborted'
     /\ call'.info = l
     /\ call'.dexopt_needed # kNoDexOptNeeded
     /\ call'.r = kUpdateSucceeded
     /\ ~This'[l].status_attempted_
     /\ ~This'[l].load_attempted_
  \/ /\ call'.op = "GetBestOatFile"
     /\ ~aborted'
     /\ call'.info = l
     /\ This[l].status_ = kOatRelocationOutOfDate
     /\ load_executable_ /\ ~load_executable_'

\* C32: the status of a candidate is computed once between two resets and its
\* file is opened once: a status that was computed is the status every later
\* query returns, and a file that was loaded stays the file of the candidate
\* until it is handed out, whatever happened to the file on disk; only a
\* successful generation and the reload not executable of ReleaseFileForUse
\* clear them
C32_StatusOnce ==
  [][\A l \in Locations :
       /\ This[l].status_attempted_ /\ ~C32_ResetBy(l)
          => /\ This'[l].status_attempted_
             /\ This'[l].status_ = This[l].status_
       /\ This[l].load_attempted_ /\ ~C32_ResetBy(l)
          => /\ This'[l].load_attempted_
             /\ \/ This'[l].file_ = This[l].file_
                \/ /\ call'.op = "GetBestOatFile"
                   /\ ~aborted'
                   /\ ~This[l].file_released_ /\ This'[l].file_released_
                   /\ This'[l].file_ = NoFile
                   /\ call'.r = This[l].file_
       /\ This[l].status_attempted_ /\ ~aborted'
          /\ call'.op = (IF l = "odex_" THEN "OdexFileStatus" ELSE "OatFileStatus")
          => call'.r = This[l].status_]_vars

\* A status query returns the cached kOatRelocationOutOfDate of the odex file
\* after a generation that failed has removed the file
C32_Witness ==
  /\ call.op = "OdexFileStatus"
  /\ call.r = kOatRelocationOutOfDate
  /\ odex_.load_attempted_ /\ odex_.file_ # NoFile
  /\ disk["odex_"] = NoCandidate

\* ------------------------------------------------------------------------
\* C33
\* ------------------------------------------------------------------------
\* C33: the caches of the assistant are filled once: after the boot image
\* info was asked for, it is never loaded again and stays what the first
\* attempt gave, nullptr included; after the required checksums were asked
\* for, the list, whether it was found and whether it came from the original
\* dex files stay what the first attempt gave; no step clears them, not the
\* reset of a candidate and not a generation
C33_CachesOnce ==
  [][/\ image_info_load_attempted_
        => /\ image_info_load_attempted_'
           /\ cached_image_info_' = cached_image_info_
     /\ required_dex_checksums_attempted_
        => /\ required_dex_checksums_attempted_'
           /\ required_dex_checksums_found_' = required_dex_checksums_found_
           /\ cached_required_dex_checksums_' = cached_required_dex_checksums_
           /\ has_original_dex_files_' = has_original_dex_files_
     /\ ~image_info_load_attempted_ /\ image_info_load_attempted_'
        => cached_image_info_' = boot_image
     /\ ~image_info_load_attempted_' => cached_image_info_' = NoFile]_vars

\* A generation has succeeded and has reset its candidate; both caches are
\* still filled
C33_Witness ==
  /\ call.op = "MakeUpToDate"
  /\ call.dexopt_needed # kNoDexOptNeeded
  /\ call.r = kUpdateSucceeded
  /\ ~This[call.info].status_attempted_
  /\ image_info_load_attempted_ /\ cached_image_info_ # NoFile
  /\ required_dex_checksums_attempted_ /\ required_dex_checksums_found_

\* ------------------------------------------------------------------------
\* C34
\* ------------------------------------------------------------------------
\* The oat file at the odex location opens and has an OatDexFile entry for
\* every dex file its header counts
C34_OdexHasAllEntries ==
  /\ OatFileOpen("odex_", load_executable_) # NoFile
  /\ \A i \in DOMAIN disk["odex_"].oat.dex_checksums :
       disk["odex_"].oat.dex_checksums[i] # 0

\* C34: HasOriginalDexFiles is true exactly when the checksums were read from
\* the original dex files.  When those cannot be read, the required checksums
\* are the checksums of the entries of the odex file, in their order, if the
\* odex file opens and has every entry, and there are none otherwise; the oat
\* file of the dalvik cache is never asked.
C34_ChecksumSource ==
  /\ call.op = "HasOriginalDexFiles" /\ ~aborted => call.r = dex_file.readable
  /\ required_dex_checksums_attempted_
     => /\ has_original_dex_files_ = dex_file.readable
        /\ dex_file.readable
           => /\ required_dex_checksums_found_
              /\ cached_required_dex_checksums_ = dex_file.checksums
        /\ ~dex_file.readable
           => /\ required_dex_checksums_found_ = C34_OdexHasAllEntries
              /\ required_dex_checksums_found_
                 => cached_required_dex_checksums_ = disk["odex_"].oat.dex_checksums

\* The dex files cannot be read and the odex file has no entry for its second
\* dex file: no required checksums, although the oat file of the dalvik cache
\* has every entry
C34_Witness ==
  /\ ~dex_file.readable
  /\ required_dex_checksums_attempted_
  /\ ~required_dex_checksums_found_
  /\ disk["odex_"].oat = BaselineOat(<<1, 0>>)
  /\ disk["oat_"].oat = BaselineOat(<<1>>)

\* ------------------------------------------------------------------------
\* C35
\* ------------------------------------------------------------------------
\* C35: when there are no required checksums (the dex files cannot be read
\* and the odex file gives none), the checksum gate lets every candidate
\* through: no candidate, oat file or vdex file alone, has the status
\* kOatDexOutOfDate, whatever its checksums and their number
C35_NoChecksumsNoGate ==
  required_dex_checksums_attempted_ /\ ~required_dex_checksums_found_
  => \A l \in Locations :
       /\ This[l].status_attempted_ => This[l].status_ # kOatDexOutOfDate
       /\ call.op = (IF l = "odex_" THEN "OdexFileStatus" ELSE "OatFileStatus") /\ ~aborted
          => call.r # kOatDexOutOfDate

\* Without required checksums, an oat file whose checksum is not that of the
\* dex file is up to date and a vdex file with another checksum is not out
\* of date
C35_Witness ==
  /\ required_dex_checksums_attempted_ /\ ~required_dex_checksums_found_
  /\ disk["oat_"].oat # NoFile
  /\ disk["oat_"].oat.dex_checksums = <<2>>
  /\ oat_.status_attempted_ /\ oat_.status_ = kOatUpToDate
  /\ disk["odex_"] = VdexOnly(<<2>>)
  /\ odex_.status_attempted_ /\ odex_.status_ # kOatCannotOpen

\* ------------------------------------------------------------------------
\* C36
\* ------------------------------------------------------------------------
\* C36: MakeUpToDate generates exactly when the decision of the candidate
\* GetBestInfo selects, for the compiler filter of the runtime, is not
\* kNoDexOptNeeded, and then it generates that candidate with that filter
\* whatever the kind of the decision; when the decision is kNoDexOptNeeded it
\* returns kUpdateSucceeded and writes nothing, also for a candidate that
\* cannot be opened or is out of date while the original dex files are not
\* there; a compiler filter that does not parse gives kUpdateNotAttempted
\* before a candidate is looked at
C36_Decision ==
  [][call'.op = "MakeUpToDate" /\ ~aborted'
     => IF ~call'.parsed
        THEN /\ call'.r = kUpdateNotAttempted
             /\ call'.writes = <<>>
             /\ UNCHANGED <<odex_, oat_, required_dex_checksums_attempted_,
                            image_info_load_attempted_, disk, odex_dirs>>
        ELSE \E b \in {GetBestInfo(This)} :
             \E d \in {InfoGetDexOptNeeded(b.t, b.r, call'.target, call'.profile_changed)} :
               /\ call'.info = b.r
               /\ call'.dexopt_needed = d.r
               /\ IF d.r = kNoDexOptNeeded
                  THEN /\ call'.r = kUpdateSucceeded
                       /\ call'.writes = <<>>
                       /\ call'.dex2oat = "not called"
                       /\ odex_' = d.t.odex_ /\ oat_' = d.t.oat_
                       /\ UNCHANGED <<disk, odex_dirs>>
                  ELSE \E g \in {GenerateOatFileNoChecks(d.t, b.r, call'.target,
                                                         call'.fault)} :
                         /\ call'.r = g.r
                         /\ call'.writes = g.writes
                         /\ call'.dex2oat = g.dex2oat
                         /\ disk' = [disk EXCEPT ![b.r] = g.files]
                         /\ call'.r = kUpdateSucceeded
                            => disk'[b.r] = Compiled(Dex2OatOutput(call'.target))]_vars

\* The original dex files are not there and the selected candidate cannot be
\* opened: MakeUpToDate has succeeded and has written nothing
C36_Witness ==
  /\ call.op = "MakeUpToDate"
  /\ call.r = kUpdateSucceeded
  /\ call.dexopt_needed = kNoDexOptNeeded
  /\ call.writes = <<>>
  /\ ~dex_file.readable
  /\ This[call.info].status_attempted_
  /\ This[call.info].status_ = kOatCannotOpen

\* ------------------------------------------------------------------------
\* C37
\* ------------------------------------------------------------------------
\* C37: GetBestOatFile hands out the file of the selected candidate only when
\* its status is kOatUpToDate or kOatRelocationOutOfDate, and none when it is
\* kOatCannotOpen, kOatDexOutOfDate or kOatBootImageOutOfDate.  The file of a
\* candidate that needs relocation is handed out not executable: a file that
\* was loaded executable is dropped, load_executable_ is switched off, the
\* candidate is reset and its status is computed again, and the file loaded
\* again is handed out only if the candidate is still usable.
C37_Release ==
  [][call'.op = "GetBestOatFile" /\ ~aborted'
     => LET l == call'.info IN
        /\ This'[l].status_attempted_
        /\ call'.r # NoFile
           => /\ This'[l].status_ \in {kOatUpToDate, kOatRelocationOutOfDate}
              /\ This'[l].file_released_
              /\ This'[l].file_ = NoFile
        /\ This'[l].status_ \in {kOatCannotOpen, kOatDexOutOfDate, kOatBootImageOutOfDate}
           => call'.r = NoFile
        /\ call'.r # NoFile /\ This'[l].status_ = kOatRelocationOutOfDate
           => ~call'.r.executable
        /\ load_executable_' # load_executable_
           => /\ ~load_executable_'
              /\ This[l].status_attempted_ => This[l].status_ = kOatRelocationOutOfDate
              /\ call'.r \in {NoFile, OatFileOpen(l, FALSE)}
              /\ call'.r # NoFile
                 <=> This'[l].status_ \in {kOatUpToDate, kOatRelocationOutOfDate}
              /\ call'.r = NoFile => ~This'[l].file_released_
        /\ load_executable_' = load_executable_ /\ call'.r # NoFile
           /\ This[l].load_attempted_
           => call'.r = This[l].file_]_vars

\* The file of a candidate that needs relocation was loaded executable and
\* has been handed out not executable, load_executable_ is off
C37_Witness ==
  /\ call.op = "GetBestOatFile"
  /\ call.r # NoFile
  /\ ~call.r.executable
  /\ ~load_executable_
  /\ This[call.info].status_ = kOatRelocationOutOfDate
  /\ This[call.info].file_released_
  /\ ~dex_file.readable

\* ------------------------------------------------------------------------
\* C38
\* ------------------------------------------------------------------------
\* C38: the result of OatFileAssistant::GetDexOptNeeded carries the location
\* in its sign: it is the decision of the candidate GetBestInfo selects as it
\* is when that is the oat file of the dalvik cache or when the decision is
\* kDex2OatFromScratch, and the decision negated when it is the odex file;
\* kNoDexOptNeeded is 0 for both and kDex2OatFromScratch is never negative
C38_SignedDecision ==
  [][call'.op = "GetDexOptNeeded" /\ ~aborted'
     => \E b \in {GetBestInfo(This)} :
        \E d \in {InfoGetDexOptNeeded(b.t, b.r, call'.target, call'.profile_changed)} :
          /\ call'.info = b.r
          /\ d.r \in {kNoDexOptNeeded, kDex2OatFromScratch, kDex2OatForBootImage,
                      kDex2OatForFilter, kDex2OatForRelocation}
          /\ b.r = "oat_" => call'.r = d.r
          /\ b.r = "odex_" /\ d.r = kDex2OatFromScratch => call'.r = kDex2OatFromScratch
          /\ b.r = "odex_" /\ d.r # kDex2OatFromScratch => call'.r = 0 - d.r
          /\ d.r = kNoDexOptNeeded => call'.r = 0
          /\ call'.r < 0 => b.r = "odex_" /\ d.r # kDex2OatFromScratch]_vars

\* The odex file is selected and is to be compiled from scratch: the result
\* is positive
C38_Witness ==
  /\ call.op = "GetDexOptNeeded"
  /\ ~aborted
  /\ call.info = "odex_"
  /\ call.dexopt_needed = kDex2OatFromScratch
  /\ call.r = kDex2OatFromScratch
  /\ disk["odex_"] # NoCandidate

====
